---------------------------- MODULE Spec2Model ----------------------------
(***************************************************************************)
(* A model of the playfast static-analysis core: the call graph and its    *)
(* bounded path search, the call-graph builder, the entry-point analyzer,  *)
(* the flow analyzer and the Dalvik instruction decoder.                   *)
(*                                                                         *)
(* Method and class names are strings, as in the source, and substring     *)
(* tests are computed on them character by character.                      *)
(***************************************************************************)
EXTENDS Integers, Sequences, FiniteSets, Bags, TLC

VARIABLES
    graph,          \* CallGraph.graph: caller -> sequence of MethodCall
    reverse_graph,  \* CallGraph.reverse_graph: callee -> sequence of callers
    methods,        \* CallGraph.methods: the known-methods set
    n_calls,        \* number of add_call operations performed
    query,          \* arguments of the running find_paths call
    queue,          \* find_paths: the BFS queue
    paths,          \* find_paths: the paths recorded so far
    pc,             \* position of the session
    todo,           \* builder: indices of the decompiled classes not yet added
    classes,        \* the decompiled classes handed to the builder / analyzer
    manifest,       \* RustManifestInfo of the entry-point analyzer
    entry_points,   \* result of EntryPointAnalyzer.analyze
    flows,          \* result of DataFlowAnalyzer.find_flows_to
    bytecode,       \* InstructionDecoder.decode: the code-unit array
    i,              \* InstructionDecoder.decode: the index into bytecode
    instructions,   \* InstructionDecoder.decode: the instructions decoded
    reads,          \* InstructionDecoder.decode: the indices of bytecode read so far
    registers,      \* ExpressionBuilder.registers: the register file
    expressions,    \* ExpressionBuilder.process_bytecode: the expressions pushed
    data,           \* DexParser.data: the bytes handed to DexParser::new
    header,         \* DexParser.header: the parsed DexHeader
    result,         \* outcome of the last DexParser call
    dex_entries     \* DexContainer.dex_entries / ApkExtractor.dex_entries: the images of an APK

vars == <<graph, reverse_graph, methods, n_calls, query, queue, paths, pc,
          todo, classes, manifest, entry_points, flows,
          bytecode, i, instructions, reads, registers, expressions,
          data, header, result, dex_entries>>

graph_vars == <<graph, reverse_graph, methods, n_calls>>
bfs_vars == <<query, queue, paths>>
build_vars == <<todo, classes>>
flow_vars == <<manifest, entry_points, flows>>
decode_vars == <<bytecode, i, instructions, reads>>
expr_vars == <<registers, expressions>>
parse_vars == <<data, header, result, dex_entries>>

-----------------------------------------------------------------------------
(* Bounds of the model *)

MaxCalls == 3
MaxDepth == 3

-----------------------------------------------------------------------------
(* Strings and sequences *)

Range(s) == {s[k] : k \in 1..Len(s)}

\* str::contains: sub occurs in s as a contiguous substring
Contains(s, sub) ==
    \E k \in 1..(Len(s) - Len(sub) + 1) : SubSeq(s, k, k + Len(sub) - 1) = sub

\* the elements of a sequence as a bag
RECURSIVE SeqToBag(_)
SeqToBag(s) ==
    IF s = <<>> THEN EmptyBag ELSE SetToBag({Head(s)}) (+) SeqToBag(Tail(s))

NoQuery == [source |-> "", target |-> "", max_depth |-> 0]
\* RustManifestInfo::new
RustManifestInfo(package_name) ==
    [package_name |-> package_name, activities |-> <<>>, services |-> <<>>,
     receivers |-> <<>>, providers |-> <<>>, intent_filters |-> <<>>]

EmptyManifest == RustManifestInfo("")

-----------------------------------------------------------------------------
(* CallGraph *)

EmptyGraph == [graph |-> <<>>, reverse_graph |-> <<>>, methods |-> {}]

\* the value this CallGraph holds, as one record
ThisGraph == [graph |-> graph, reverse_graph |-> reverse_graph, methods |-> methods]

MethodCall(caller, callee, call_site) ==
    [caller |-> caller, callee |-> callee, call_site |-> call_site]

\* mutant: map.insert(key, vec![value]), which drops the entries already there
PushEntry_overwrite(map, key, value) ==
    [k \in (DOMAIN map) \cup {key} |-> IF k = key THEN <<value>> ELSE map[k]]

\* HashMap entry(key).or_insert_with(Vec::new).push(value)
PushEntry(map, key, value) ==
    [k \in (DOMAIN map) \cup {key} |->
        IF k = key
        THEN (IF key \in DOMAIN map THEN Append(map[key], value) ELSE <<value>>)
        ELSE map[k]]

\* mutant: the reverse edge is not recorded
add_call_forward_only(cg, caller, callee, call_site) ==
    [graph |-> PushEntry(cg.graph, caller, MethodCall(caller, callee, call_site)),
     reverse_graph |-> cg.reverse_graph,
     methods |-> cg.methods \cup {caller, callee}]

add_call(cg, caller, callee, call_site) ==
    [graph |-> PushEntry(cg.graph, caller, MethodCall(caller, callee, call_site)),
     reverse_graph |-> PushEntry(cg.reverse_graph, callee, caller),
     methods |-> cg.methods \cup {caller, callee}]

get_callees(cg, method) ==
    IF method \in DOMAIN cg.graph
    THEN [k \in 1..Len(cg.graph[method]) |-> cg.graph[method][k].callee]
    ELSE <<>>

get_callers(cg, method) ==
    IF method \in DOMAIN cg.reverse_graph THEN cg.reverse_graph[method] ELSE <<>>

find_methods_matching(cg, pattern) == {m \in cg.methods : Contains(m, pattern)}

\* get_stats: total_edges
total_edges(cg) ==
    LET RECURSIVE Sum(_)
        Sum(S) == IF S = {} THEN 0
                  ELSE LET k == CHOOSE x \in S : TRUE
                       IN Len(cg.graph[k]) + Sum(S \ {k})
    IN Sum(DOMAIN cg.graph)

-----------------------------------------------------------------------------
(* CallGraph::find_paths: one iteration of the BFS loop, and the whole loop *)

\* mutant: the depth limit is off by one
over_depth_off_by_one(path, max_depth) == Len(path) >= max_depth

\* mutant: the comparison of the depth limit is reversed
over_depth_reversed(path, max_depth) == Len(path) < max_depth

\* mutant: the depth limit is not checked
over_depth_unchecked(path, max_depth) == FALSE

\* "Check depth limit": the popped path is too long
over_depth(path, max_depth) == Len(path) > max_depth

\* "Check if we reached target"
reached_target(current, target) == Contains(current, target)

\* mutant: the cycle check is missing
on_path_unchecked(path, callee) == FALSE

\* "Avoid cycles": the callee is already on the path
on_path(path, callee) == callee \in Range(path)

\* mutant: length counts nodes, not edges
CallPath_node_count(path, calls) == [methods |-> path, calls |-> calls, length |-> Len(path)]

CallPath(path, calls) == [methods |-> path, calls |-> calls, length |-> Len(path) - 1]

\* the queue items pushed for the neighbours of item, in the order of the calls
RECURSIVE explore(_, _)
explore(item, method_calls) ==
    IF method_calls = <<>> THEN <<>>
    ELSE LET call == Head(method_calls)
         IN (IF on_path(item.path, call.callee) THEN <<>>
             ELSE <<[current |-> call.callee,
                     path |-> Append(item.path, call.callee),
                     calls |-> Append(item.calls, call)]>>)
            \o explore(item, Tail(method_calls))

\* mutant: the popped item is put back at the end of the queue
bfs_step_requeue(g, target, max_depth, st) ==
    [queue |-> Tail(st.queue) \o <<Head(st.queue)>>, paths |-> st.paths]

\* one `while let Some(..) = queue.pop_front()` iteration on st = [queue, paths]
bfs_step(g, target, max_depth, st) ==
    LET item == Head(st.queue)
        rest == Tail(st.queue)
    IN  IF over_depth(item.path, max_depth)
        THEN [queue |-> rest, paths |-> st.paths]
        ELSE IF reached_target(item.current, target)
        THEN [queue |-> rest, paths |-> Append(st.paths, CallPath(item.path, item.calls))]
        ELSE IF item.current \in DOMAIN g
        THEN [queue |-> rest \o explore(item, g[item.current]), paths |-> st.paths]
        ELSE [queue |-> rest, paths |-> st.paths]

bfs_init(source) ==
    [queue |-> <<[current |-> source, path |-> <<source>>, calls |-> <<>>]>>,
     paths |-> <<>>]

RECURSIVE bfs_run(_, _, _, _)
bfs_run(g, target, max_depth, st) ==
    IF st.queue = <<>> THEN st.paths
    ELSE bfs_run(g, target, max_depth, bfs_step(g, target, max_depth, st))

\* the value find_paths returns
find_paths(g, source, target, max_depth) ==
    bfs_run(g, target, max_depth, bfs_init(source))

-----------------------------------------------------------------------------
(* The call-graph session: add_call any number of times, then one            *)
(* find_paths query run one loop iteration at a time.                        *)

Nodes == {"A.onCreate", "A.onStart", "W.load", "W.loadUrl"}
Sources == {"A.onCreate", "W.loadUrl"}
Targets == {"W.load", "loadUrl"}
CallSite == "m:void"

InitIdle ==
    /\ todo = {}
    /\ classes = <<>>
    /\ manifest = EmptyManifest
    /\ entry_points = <<>>
    /\ flows = <<>>
    /\ bytecode = <<>>
    /\ i = 0
    /\ instructions = <<>>
    /\ reads = {}
    /\ registers = <<>>
    /\ expressions = <<>>
    /\ data = <<>>
    /\ header = <<>>
    /\ result = <<>>
    /\ dex_entries = <<>>

InitGraph ==
    /\ graph = <<>>
    /\ reverse_graph = <<>>
    /\ methods = {}
    /\ n_calls = 0
    /\ query = NoQuery
    /\ queue = <<>>
    /\ paths = <<>>

Init ==
    /\ InitGraph
    /\ InitIdle
    /\ pc = "build"

SetGraph(cg) ==
    /\ graph' = cg.graph
    /\ reverse_graph' = cg.reverse_graph
    /\ methods' = cg.methods

AddCall ==
    /\ pc = "build"
    /\ n_calls < MaxCalls
    /\ \E caller \in Nodes, callee \in Nodes :
          SetGraph(add_call(ThisGraph, caller, callee, CallSite))
    /\ n_calls' = n_calls + 1
    /\ UNCHANGED <<bfs_vars, pc, build_vars, flow_vars, decode_vars, expr_vars, parse_vars>>

\* find_paths is entered: the queue holds the source
FindPathsStart ==
    /\ pc = "build"
    /\ \E source \in Sources, target \in Targets, max_depth \in 0..MaxDepth :
          /\ query' = [source |-> source, target |-> target, max_depth |-> max_depth]
          /\ queue' = bfs_init(source).queue
          /\ paths' = bfs_init(source).paths
    /\ pc' = "bfs"
    /\ UNCHANGED <<graph_vars, build_vars, flow_vars, decode_vars, expr_vars, parse_vars>>

\* one iteration of the while loop
FindPathsStep ==
    /\ pc = "bfs"
    /\ queue # <<>>
    /\ LET st == bfs_step(graph, query.target, query.max_depth,
                          [queue |-> queue, paths |-> paths])
       IN  /\ queue' = st.queue
           /\ paths' = st.paths
    /\ UNCHANGED <<graph_vars, query, pc, build_vars, flow_vars, decode_vars, expr_vars, parse_vars>>

\* the queue is empty: find_paths returns paths
FindPathsReturn ==
    /\ pc = "bfs"
    /\ queue = <<>>
    /\ pc' = "done"
    /\ UNCHANGED <<graph_vars, bfs_vars, build_vars, flow_vars, decode_vars, expr_vars, parse_vars>>

Next ==
    \/ AddCall
    \/ FindPathsStart
    \/ FindPathsStep
    \/ FindPathsReturn

Spec == Init /\ [][Next]_vars

-----------------------------------------------------------------------------
(* Paths of the graph, stated without the search *)

IsEdge(a, b) == a \in DOMAIN graph /\ \E k \in 1..Len(graph[a]) : graph[a][k].callee = b

Distinct(p) == \A j, k \in 1..Len(p) : j # k => p[j] # p[k]

\* the node sequences of 1..n nodes over the graph's nodes and the source
NodeSeqs(n) == UNION {[1..k -> methods \cup {query.source}] : k \in 1..n}

\* p starts at the source, follows forward edges and repeats no node
ForwardPath(p) ==
    /\ p[1] = query.source
    /\ Distinct(p)
    /\ \A k \in 1..(Len(p) - 1) : IsEdge(p[k], p[k + 1])

Returned == {paths[k].methods : k \in 1..Len(paths)}

\* C1 (as stated): find_paths returns every node-distinct forward path from the
\* source of at most max_depth nodes whose last node contains the target.
C1_AllTargetPathsReturned ==
    pc = "done" =>
        \A p \in NodeSeqs(query.max_depth) :
            (ForwardPath(p) /\ Contains(p[Len(p)], query.target)) => p \in Returned

\* C1 (amended): find_paths returns every node-distinct forward path from the
\* source of at most max_depth nodes whose last node contains the target and
\* none of whose earlier nodes contains the target; no such path is omitted.
C1_AllFirstHitPathsReturned ==
    pc = "done" =>
        \A p \in NodeSeqs(query.max_depth) :
            (/\ ForwardPath(p)
             /\ Contains(p[Len(p)], query.target)
             /\ \A k \in 1..(Len(p) - 1) : ~Contains(p[k], query.target))
            => p \in Returned

\* C1 witness: a search that returned two different paths, one of three nodes,
\* so it went on after its first hit.
C1_Witness ==
    /\ pc = "done"
    /\ Cardinality(Returned) >= 2
    /\ \E p \in Returned : Len(p) = 3

\* C2: every path find_paths records has pairwise distinct nodes, whatever the
\* graph (cycles and self-loops included), source, target and max_depth.
C2_PathsNodeDistinct ==
    \A k \in 1..Len(paths) : Distinct(paths[k].methods)

\* C2 witness: a three-node path returned from a graph that has an edge back to
\* a node of that path (a cycle or a self-loop).
C2_Witness ==
    /\ pc = "done"
    /\ \E p \in Returned :
          /\ Len(p) = 3
          /\ \E j, k \in 1..Len(p) : j <= k /\ IsEdge(p[k], p[j])

-----------------------------------------------------------------------------
(* InstructionDecoder::decode.  Code units are 16-bit words; the index i is  *)
(* zero-based as in the source.                                              *)

OP_CONST_4 == 18                \* 0x12
OP_CONST_16 == 19               \* 0x13
OP_CONST == 20                  \* 0x14
OP_CONST_STRING == 26           \* 0x1a
OP_INVOKE_VIRTUAL == 110        \* 0x6e
OP_INVOKE_SUPER == 111          \* 0x6f
OP_INVOKE_DIRECT == 112         \* 0x70
OP_INVOKE_STATIC == 113         \* 0x71
OP_INVOKE_INTERFACE == 114      \* 0x72
OP_INVOKE_VIRTUAL_RANGE == 116  \* 0x74
OP_INVOKE_STATIC_RANGE == 119   \* 0x77

Shr(x, n) == x \div (2 ^ n)

\* bytecode[k] of the source (zero-based)
Unit(code, k) == code[k + 1]

\* `if i + n < bytecode.len() { bytecode[i + n] } else { 0 }`
UnitOrZero(code, k) == IF k < Len(code) THEN Unit(code, k) ELSE 0

\* (word & 0xFF) as u8
opcode_byte(word) == word % 256

\* Opcode::from_u8 followed by the match of decode: the decoded kinds
InvokeKind(op) ==
    CASE op = OP_INVOKE_VIRTUAL -> "InvokeVirtual"
      [] op = OP_INVOKE_SUPER -> "InvokeSuper"
      [] op = OP_INVOKE_DIRECT -> "InvokeDirect"
      [] op = OP_INVOKE_STATIC -> "InvokeStatic"
      [] op = OP_INVOKE_INTERFACE -> "InvokeInterface"
      [] op = OP_INVOKE_VIRTUAL_RANGE -> "InvokeVirtualRange"
      [] op = OP_INVOKE_STATIC_RANGE -> "InvokeStaticRange"
      [] OTHER -> "Unknown"

\* sign extension of the 4-bit value of const/4 to i8
sign_extend_4(value_bits) == IF value_bits >= 8 THEN value_bits - 16 ELSE value_bits

\* u16 as i16
as_i16(w) == IF w >= 32768 THEN w - 65536 ELSE w

\* ((high << 16) | low) as i32: bit 15 of high is the sign bit
as_i32(low, high) == as_i16(high) * 65536 + low

\* the argument registers of a non-range invoke
invoke_args(word, args_word) ==
    [j \in 1..(Shr(word, 12) % 16) |->
        IF j - 1 = 0 THEN Shr(word, 8) % 16
        ELSE IF j - 1 <= 4 THEN Shr(args_word, (j - 2) * 4) % 16
        ELSE 0]

\* one iteration of the while loop at index k: the instruction and the next index
decode_at(code, k) ==
    LET word == Unit(code, k)
        op == opcode_byte(word)
    IN  CASE op = OP_CONST_4 ->
               [insn |-> [op |-> "Const4", dest |-> Shr(word, 8) % 16,
                          value |-> sign_extend_4(Shr(word, 12) % 16)],
                next |-> k + 1]
          [] op = OP_CONST_16 ->
               [insn |-> [op |-> "Const16", dest |-> Shr(word, 8) % 256,
                          value |-> IF k + 1 < Len(code) THEN as_i16(Unit(code, k + 1)) ELSE 0],
                next |-> k + 2]
          [] op = OP_CONST ->
               [insn |-> [op |-> "Const", dest |-> Shr(word, 8) % 256,
                          value |-> IF k + 2 < Len(code)
                                    THEN as_i32(Unit(code, k + 1), Unit(code, k + 2))
                                    ELSE 0],
                next |-> k + 3]
          [] op = OP_CONST_STRING ->
               [insn |-> [op |-> "ConstString", dest |-> Shr(word, 8) % 256,
                          string_idx |-> UnitOrZero(code, k + 1)],
                next |-> k + 2]
          [] op \in {OP_INVOKE_VIRTUAL, OP_INVOKE_SUPER, OP_INVOKE_DIRECT,
                     OP_INVOKE_STATIC, OP_INVOKE_INTERFACE} ->
               [insn |-> [op |-> InvokeKind(op),
                          args |-> invoke_args(word, UnitOrZero(code, k + 2)),
                          method_idx |-> UnitOrZero(code, k + 1)],
                next |-> k + 3]
          [] op \in {OP_INVOKE_VIRTUAL_RANGE, OP_INVOKE_STATIC_RANGE} ->
               [insn |-> [op |-> InvokeKind(op),
                          first_arg |-> UnitOrZero(code, k + 2),
                          arg_count |-> Shr(word, 8) % 256,
                          method_idx |-> UnitOrZero(code, k + 1)],
                next |-> k + 3]
          [] OTHER ->
               [insn |-> [op |-> "Unknown", opcode |-> op, data |-> <<word>>],
                next |-> k + 1]

\* mutant: the follow-on word is read without the length test
guarded_read_unchecked(code, k) == {k}

\* the index read by `if i + n < bytecode.len() { bytecode[i + n] } else { 0 }`
guarded_read(code, k) == IF k < Len(code) THEN {k} ELSE {}

\* the indices of the array read by the iteration of the while loop at index k
reads_at(code, k) ==
    LET op == opcode_byte(Unit(code, k))
    IN  {k} \cup
        CASE op = OP_CONST_4 -> {}
          [] op = OP_CONST_16 -> IF k + 1 < Len(code) THEN {k + 1} ELSE {}
          [] op = OP_CONST -> IF k + 2 < Len(code) THEN {k + 1, k + 2} ELSE {}
          [] op = OP_CONST_STRING -> guarded_read(code, k + 1)
          [] op \in {OP_INVOKE_VIRTUAL, OP_INVOKE_SUPER, OP_INVOKE_DIRECT,
                     OP_INVOKE_STATIC, OP_INVOKE_INTERFACE,
                     OP_INVOKE_VIRTUAL_RANGE, OP_INVOKE_STATIC_RANGE} ->
               guarded_read(code, k + 1) \cup guarded_read(code, k + 2)
          [] OTHER -> {}

\* the whole loop from index k
RECURSIVE decode_from(_, _)
decode_from(code, k) ==
    IF k < Len(code)
    THEN <<decode_at(code, k).insn>> \o decode_from(code, decode_at(code, k).next)
    ELSE <<>>

\* the value decode returns
decode(code) == decode_from(code, 0)

\* the number of code units of an instruction's format
insn_words(insn) ==
    CASE insn.op \in {"Const4", "Unknown"} -> 1
      [] insn.op \in {"Const16", "ConstString"} -> 2
      [] OTHER -> 3

RECURSIVE total_words(_)
total_words(insns) ==
    IF insns = <<>> THEN 0 ELSE insn_words(Head(insns)) + total_words(Tail(insns))

-----------------------------------------------------------------------------
(* A decode session: decode is called on a code-unit array and runs one      *)
(* loop iteration at a time.                                                 *)

MaxUnits == 3

\* the code units the arrays are drawn from
\*   0x1201 0xF201 (the const/4 vectors of the tests), 0x1012 0xF012 (const/4),
\*   0x0113 (const/16), 0x0214 (const), 0x001a (const-string),
\*   0x206e (invoke-virtual, 2 args), 0x1071 (invoke-static, 1 arg),
\*   0x0274 (invoke-virtual/range), 0x0000 (nop), 0x8001 0x0010 (operands)
Units == {4609, 61953, 4114, 61458, 275, 532, 26, 8302, 4209, 628, 0, 32769, 16}

InitDecode ==
    /\ InitGraph
    /\ todo = {}
    /\ classes = <<>>
    /\ manifest = EmptyManifest
    /\ entry_points = <<>>
    /\ flows = <<>>
    /\ bytecode \in UNION {[1..n -> Units] : n \in 0..MaxUnits}
    /\ i = 0
    /\ instructions = <<>>
    /\ reads = {}
    /\ registers = <<>>
    /\ expressions = <<>>
    /\ data = <<>>
    /\ header = <<>>
    /\ result = <<>>
    /\ dex_entries = <<>>
    /\ pc = "decode"

DecodeStep ==
    /\ pc = "decode"
    /\ i < Len(bytecode)
    /\ instructions' = Append(instructions, decode_at(bytecode, i).insn)
    /\ i' = decode_at(bytecode, i).next
    /\ reads' = reads \cup reads_at(bytecode, i)
    /\ UNCHANGED <<graph_vars, bfs_vars, pc, build_vars, flow_vars, bytecode, expr_vars, parse_vars>>

DecodeReturn ==
    /\ pc = "decode"
    /\ ~(i < Len(bytecode))
    /\ pc' = "decoded"
    /\ UNCHANGED <<graph_vars, bfs_vars, build_vars, flow_vars, decode_vars, expr_vars, parse_vars>>

NextDecode ==
    \/ DecodeStep
    \/ DecodeReturn

SpecDecode == InitDecode /\ [][NextDecode]_vars

\* C9 (as stated): decoding [0x1201] yields exactly Const4{dest=0, value=1} and
\* decoding [0xF201] yields exactly Const4{dest=0, value=-1}.
C9_Const4TestVectors ==
    pc = "decoded" =>
        /\ bytecode = <<4609>> =>
              instructions = <<[op |-> "Const4", dest |-> 0, value |-> 1]>>
        /\ bytecode = <<61953>> =>
              instructions = <<[op |-> "Const4", dest |-> 0, value |-> -1]>>

\* C10 (as stated): the word lengths of the instructions decode returns sum to
\* exactly the number of code units of the input, for any code-unit array.
C10_LengthPreserving ==
    pc = "decoded" => total_words(instructions) = Len(bytecode)

\* the instruction decoded last
LastInsn == instructions[Len(instructions)]

\* the code units from index k to the end of the array
Available(code, k) == SubSeq(code, k + 1, Len(code))

\* C11 (as stated): when the opcode word of a multi-word instruction is present
\* but one or more of its follow-on words lie past the end of the array, the
\* decoder emits Unknown for it, carrying the available prefix, rather than a
\* typed instruction.  (The index passes the end of the array exactly when the
\* instruction decoded last was cut short.)
C11_TruncatedIsUnknown ==
    i > Len(bytecode) =>
        /\ LastInsn.op = "Unknown"
        /\ \E k \in 0..(Len(bytecode) - 1) : LastInsn.data = Available(bytecode, k)

\* C12: decode never reads the code-unit array at an index greater than or equal
\* to its length, for any input, streams cut in the middle of a 2- or 3-word
\* instruction included.
C12_NoOverread == \A r \in reads : 0 <= r /\ r < Len(bytecode)

\* C12 witness: decode has returned from an array whose last instruction is a
\* 3-word instruction with its opcode word only, or with one follow-on word,
\* and every word of the array was read.
C12_Witness ==
    /\ pc = "decoded"
    /\ i > Len(bytecode)
    /\ insn_words(LastInsn) = 3
    /\ reads = 0..(Len(bytecode) - 1)
    /\ Len(bytecode) >= 2

-----------------------------------------------------------------------------
(* More string helpers *)

\* str::find: the zero-based index of the first occurrence of sub in s, or -1
Find(s, sub) ==
    IF Contains(s, sub)
    THEN (CHOOSE k \in 1..(Len(s) - Len(sub) + 1) :
            /\ SubSeq(s, k, k + Len(sub) - 1) = sub
            /\ \A j \in 1..(k - 1) : SubSeq(s, j, j + Len(sub) - 1) # sub) - 1
    ELSE -1

\* str::replace of one character
RECURSIVE ReplaceChar(_, _, _)
ReplaceChar(s, from, to) ==
    IF Len(s) = 0 THEN ""
    ELSE (IF SubSeq(s, 1, 1) = from THEN to ELSE SubSeq(s, 1, 1))
         \o ReplaceChar(SubSeq(s, 2, Len(s)), from, to)

\* [String]::join
RECURSIVE Join(_, _)
Join(strs, sep) ==
    IF strs = <<>> THEN ""
    ELSE IF Len(strs) = 1 THEN strs[1]
    ELSE strs[1] \o sep \o Join(Tail(strs), sep)

\* Option values: None is <<>>, Some(v) is <<v>>
None == <<>>
Some(v) == <<v>>

-----------------------------------------------------------------------------
(* MethodResolver.  A DEX image is seen through the parser's lookups: the    *)
(* string pool, the method pool with each method id resolved to its names,   *)
(* and the class definitions with their encoded methods.                     *)

\* the "{}.{}({}): {}" format of the full signature
full_signature(class_name, method_name, parameters, return_type) ==
    class_name \o "." \o method_name \o "(" \o Join(parameters, ", ") \o "): " \o return_type

\* MethodResolver::resolve: Some(signature), or None for an index out of the pool
resolve(dex, method_idx) ==
    IF method_idx < Len(dex.methods)
    THEN LET m == dex.methods[method_idx + 1]
         IN Some([class_name |-> m.class_name,
                  method_name |-> m.method_name,
                  parameters |-> m.parameters,
                  return_type |-> m.return_type,
                  full_signature |-> full_signature(m.class_name, m.method_name,
                                                    m.parameters, m.return_type)])
    ELSE None

\* MethodResolver::resolve_string
resolve_string(dex, string_idx) ==
    IF string_idx < Len(dex.strings) THEN Some(dex.strings[string_idx + 1]) ELSE None

is_webview_method(sig) ==
    Contains(sig.class_name, "WebView") \/ Contains(sig.class_name, "WebSettings")

is_set_javascript_enabled(sig) == sig.method_name = "setJavaScriptEnabled"

-----------------------------------------------------------------------------
(* ExpressionBuilder *)

Unknown == [kind |-> "Unknown"]
ConstInt(val) == [kind |-> "ConstInt", val |-> val]
ConstString(str) == [kind |-> "ConstString", str |-> str]

\* RegisterValue::format of the values the builder writes to regs
format(value) ==
    CASE value.kind = "Unknown" -> "?"
      [] value.kind = "ConstInt" ->
            (IF value.val = 0 THEN "false"
             ELSE IF value.val = 1 THEN "true"
             ELSE ToString(value.val))
      [] value.kind = "ConstString" -> "\"" \o value.str \o "\""

\* RegisterValue::format of a MethodCall value
format_call(receiver, sig, args) ==
    format(receiver) \o "." \o sig.method_name \o "("
        \o Join([k \in 1..Len(args) |-> format(args[k])], ", ") \o ")"

\* registers.get(&reg).cloned().unwrap_or(RegisterValue::Unknown)
read_reg(regs, reg) == IF reg \in DOMAIN regs THEN regs[reg] ELSE Unknown

\* mutant: a register already written keeps its first value
write_reg_keep_first(regs, dest, value) ==
    [r \in (DOMAIN regs) \cup {dest} |-> IF r \in DOMAIN regs THEN regs[r] ELSE value]

\* registers.insert(dest, value)
write_reg(regs, dest, value) ==
    [r \in (DOMAIN regs) \cup {dest} |-> IF r = dest THEN value ELSE regs[r]]

\* the significance test of process_method_call
is_significant(sig, expression) ==
    \/ is_set_javascript_enabled(sig)
    \/ is_webview_method(sig)
    \/ Contains(expression, "WebSettings")
    \/ Contains(expression, "WebView")

\* ExpressionBuilder::process_method_call: the expression emitted, if any
process_method_call(dex, regs, args, method_idx) ==
    IF resolve(dex, method_idx) = None THEN None
    ELSE IF args = <<>> THEN None
    ELSE LET sig == resolve(dex, method_idx)[1]
             receiver == read_reg(regs, args[1])
             method_args == [k \in 1..(Len(args) - 1) |-> read_reg(regs, args[k + 1])]
             expression == format_call(receiver, sig, method_args)
         IN  IF is_significant(sig, expression)
             THEN Some([expression |-> expression,
                        value_type |-> sig.return_type,
                        is_method_call |-> TRUE,
                        method_signature |-> Some(sig.full_signature)])
             ELSE None

\* mutant: an invoke stores the (unknown) call result in its receiver register
process_instruction_write_back(dex, regs, insn) ==
    CASE insn.op \in {"Const4", "Const16", "Const"} ->
            [registers |-> write_reg(regs, insn.dest, ConstInt(insn.value)),
             expr |-> None]
      [] insn.op = "ConstString" ->
            [registers |->
                write_reg(regs, insn.dest,
                          IF resolve_string(dex, insn.string_idx) # None
                          THEN ConstString(resolve_string(dex, insn.string_idx)[1])
                          ELSE Unknown),
             expr |-> None]
      [] insn.op \in {"InvokeVirtual", "InvokeSuper", "InvokeDirect",
                      "InvokeStatic", "InvokeInterface"} ->
            [registers |-> IF insn.args = <<>> THEN regs
                           ELSE write_reg(regs, insn.args[1], Unknown),
             expr |-> process_method_call(dex, regs, insn.args, insn.method_idx)]
      [] OTHER -> [registers |-> regs, expr |-> None]

\* ExpressionBuilder::process_instruction: the register file after the
\* instruction and the expression emitted, if any
process_instruction(dex, regs, insn) ==
    CASE insn.op \in {"Const4", "Const16", "Const"} ->
            [registers |-> write_reg(regs, insn.dest, ConstInt(insn.value)),
             expr |-> None]
      [] insn.op = "ConstString" ->
            [registers |->
                write_reg(regs, insn.dest,
                          IF resolve_string(dex, insn.string_idx) # None
                          THEN ConstString(resolve_string(dex, insn.string_idx)[1])
                          ELSE Unknown),
             expr |-> None]
      [] insn.op \in {"InvokeVirtual", "InvokeSuper", "InvokeDirect",
                      "InvokeStatic", "InvokeInterface"} ->
            [registers |-> regs,
             expr |-> process_method_call(dex, regs, insn.args, insn.method_idx)]
      [] OTHER -> [registers |-> regs, expr |-> None]

\* the loop of process_bytecode over the decoded instructions
RECURSIVE process_insns(_, _, _)
process_insns(dex, regs, insns) ==
    IF insns = <<>> THEN [registers |-> regs, expressions |-> <<>>]
    ELSE LET one == process_instruction(dex, regs, Head(insns))
             rest == process_insns(dex, one.registers, Tail(insns))
         IN  [registers |-> rest.registers, expressions |-> one.expr \o rest.expressions]

\* ExpressionBuilder::process_bytecode on a builder whose register file is regs
process_bytecode(dex, regs, code) == process_insns(dex, regs, decode(code))

-----------------------------------------------------------------------------
(* Class decompiler *)

\* decompile_method: None when the method id does not resolve; a fresh builder
\* (empty register file) processes the bytecode when there is any
decompile_method(dex, encoded_method) ==
    IF resolve(dex, encoded_method.method_idx) = None THEN None
    ELSE Some([name |-> resolve(dex, encoded_method.method_idx)[1].method_name,
               expressions |->
                   IF encoded_method.code # <<>>
                   THEN process_bytecode(dex, <<>>, encoded_method.code).expressions
                   ELSE <<>>,
               bytecode_size |-> Len(encoded_method.code)])

RECURSIVE decompile_methods(_, _)
decompile_methods(dex, encoded) ==
    IF encoded = <<>> THEN <<>>
    ELSE decompile_method(dex, Head(encoded)) \o decompile_methods(dex, Tail(encoded))

\* decompile_class: direct methods then virtual methods
decompile_class(dex, class_def) ==
    [class_name |-> class_def.class_name,
     methods |-> decompile_methods(dex, class_def.direct_methods \o class_def.virtual_methods)]

-----------------------------------------------------------------------------
(* CallGraphBuilder *)

\* the key of a method: format!("{}.{}", class_name, method.name)
method_key(class_name, method_name) == class_name \o "." \o method_name

\* parse_method_from_expression slices code[start + 1..arrow], which panics
\* when the first 'L' lies at or after the arrow
parse_panics(code) ==
    Contains(code, "->") /\ Contains(code, "L") /\ Find(code, "L") + 1 > Find(code, "->")

\* parse_method_from_expression, for the texts on which it does not panic
parse_method_from_expression(code) ==
    IF Contains(code, "->") /\ Contains(code, "L")
    THEN LET start == Find(code, "L")
             arrow == Find(code, "->")
             class_name == ReplaceChar(SubSeq(code, start + 2, arrow), "/", ".")
             method_part == SubSeq(code, arrow + 3, Len(code))
             method_name == IF Contains(method_part, "(")
                            THEN SubSeq(method_part, 1, Find(method_part, "("))
                            ELSE method_part
         IN  Some(class_name \o "." \o method_name)
    ELSE None

extract_method_call(expr) ==
    IF expr.is_method_call
    THEN (IF expr.method_signature # None
          THEN Some(expr.method_signature[1])
          ELSE parse_method_from_expression(expr.expression))
    ELSE None

\* the loop of add_method over the expressions of one method
RECURSIVE add_exprs(_, _, _, _)
add_exprs(cg, method_sig, method_name, exprs) ==
    IF exprs = <<>> THEN cg
    ELSE LET expr == Head(exprs)
             call_info == extract_method_call(expr)
             next == IF call_info # None
                     THEN add_call(cg, method_sig, call_info[1],
                                   method_name \o ":" \o expr.value_type)
                     ELSE cg
         IN  add_exprs(next, method_sig, method_name, Tail(exprs))

add_method(cg, class_name, method) ==
    add_exprs(cg, method_key(class_name, method.name), method.name, method.expressions)

RECURSIVE add_methods(_, _, _)
add_methods(cg, class_name, ms) ==
    IF ms = <<>> THEN cg
    ELSE add_methods(add_method(cg, class_name, Head(ms)), class_name, Tail(ms))

\* CallGraphBuilder::add_class
add_class(cg, class) == add_methods(cg, class.class_name, class.methods)

\* the loop `for decompiled in decompiled_classes { builder.add_class(..) }`
RECURSIVE add_classes(_, _)
add_classes(cg, cs) ==
    IF cs = <<>> THEN cg ELSE add_classes(add_class(cg, Head(cs)), Tail(cs))

-----------------------------------------------------------------------------
(* A build session: a collection of decompiled classes is fed to the builder *)
(* one class at a time, in any order, and the graph is built.                *)

MaxClasses == 3

\* code units: const-string v1, string@0 (0x011a 0x0000);
\* invoke-virtual {v0, v1}, method@N (0x206e N 0x0001);
\* invoke-static {v0}, method@3 (0x1071 0x0003 0x0000)
Dex ==
    [strings |-> <<"u">>,
     methods |-> <<
        [class_name |-> "A", method_name |-> "onCreate",
         parameters |-> <<>>, return_type |-> "void"],
        [class_name |-> "WebViewH", method_name |-> "open",
         parameters |-> <<"String">>, return_type |-> "void"],
        [class_name |-> "WebView", method_name |-> "loadUrl",
         parameters |-> <<"String">>, return_type |-> "void"],
        [class_name |-> "B", method_name |-> "run",
         parameters |-> <<>>, return_type |-> "void"],
        [class_name |-> "WebViewH", method_name |-> "idle",
         parameters |-> <<>>, return_type |-> "void"] >>,
     class_defs |-> <<
        [class_name |-> "A", direct_methods |-> <<>>,
         virtual_methods |-> <<[method_idx |-> 0, code |-> <<282, 0, 8302, 1, 1>>]>>],
        [class_name |-> "A", direct_methods |-> <<>>,
         virtual_methods |-> <<[method_idx |-> 0, code |-> <<8302, 2, 1>>]>>],
        [class_name |-> "WebViewH",
         direct_methods |-> <<[method_idx |-> 4, code |-> <<>>]>>,
         virtual_methods |-> <<[method_idx |-> 1, code |-> <<8302, 2, 1, 4209, 3, 0>>]>>],
        [class_name |-> "B", direct_methods |-> <<>>,
         virtual_methods |-> <<[method_idx |-> 3, code |-> <<4209, 3, 0>>]>>] >>]

\* the decompiled classes of the image
Decompiled == [k \in 1..Len(Dex.class_defs) |-> decompile_class(Dex, Dex.class_defs[k])]

InitBuild ==
    /\ InitGraph
    /\ \E n \in 0..MaxClasses : \E pick \in [1..n -> 1..Len(Decompiled)] :
          /\ classes = [k \in 1..n |-> Decompiled[pick[k]]]
          /\ todo = 1..n
    /\ manifest = EmptyManifest
    /\ entry_points = <<>>
    /\ flows = <<>>
    /\ bytecode = <<>>
    /\ i = 0
    /\ instructions = <<>>
    /\ reads = {}
    /\ registers = <<>>
    /\ expressions = <<>>
    /\ data = <<>>
    /\ header = <<>>
    /\ result = <<>>
    /\ dex_entries = <<>>
    /\ pc = "adding"

\* builder.add_class(&decompiled) for one of the classes not yet added
AddClass ==
    /\ pc = "adding"
    /\ \E k \in todo :
          /\ SetGraph(add_class(ThisGraph, classes[k]))
          /\ todo' = todo \ {k}
    /\ UNCHANGED <<n_calls, bfs_vars, pc, classes, flow_vars, decode_vars, expr_vars, parse_vars>>

\* builder.build()
Build ==
    /\ pc = "adding"
    /\ todo = {}
    /\ pc' = "built"
    /\ UNCHANGED <<graph_vars, bfs_vars, build_vars, flow_vars, decode_vars, expr_vars, parse_vars>>

NextBuild ==
    \/ AddClass
    \/ Build

SpecBuild == InitBuild /\ [][NextBuild]_vars

\* the edges of a graph
Edges(g) == UNION {Range(g[caller]) : caller \in DOMAIN g}

\* the edges of a graph as a multiset
RECURSIVE EdgeBagOf(_, _)
EdgeBagOf(g, callers) ==
    IF callers = {} THEN EmptyBag
    ELSE LET c == CHOOSE x \in callers : TRUE
         IN SeqToBag(g[c]) (+) EdgeBagOf(g, callers \ {c})

EdgeBag(g) == EdgeBagOf(g, DOMAIN g)

\* the 'Class.method' keys of the methods of the image
MethodKeys ==
    {method_key(Dex.methods[k].class_name, Dex.methods[k].method_name) :
        k \in 1..Len(Dex.methods)}

\* the keys of the methods of the classes added so far
AddedKeys ==
    UNION {{method_key(classes[k].class_name, classes[k].methods[j].name) :
                j \in 1..Len(classes[k].methods)} : k \in (1..Len(classes)) \ todo}

\* C3 (as stated): every edge the builder emits has its caller and its callee in
\* the 'Class.method' key form, so the callee of an edge to a decompiled method is
\* the key under which that method's own edges are stored.
C3_EdgesInKeyForm ==
    \A e \in Edges(graph) : e.caller \in MethodKeys /\ e.callee \in MethodKeys

\* C7 (as stated): after add_class, every method of the added class is in the
\* known-methods set, also a method with no outgoing and no incoming edge.
C7_AddedMethodsKnown == AddedKeys \subseteq methods

\* the graph built from the same classes in the order of the collection
InOrder == add_classes(EmptyGraph, classes)

PathSet(g, source, target, max_depth) == Range(find_paths(g, source, target, max_depth))

\* C8: whatever the order in which the classes of a collection are added, the
\* built graph has the same known-methods set and the same multiset of edges as
\* the graph built in the collection's own order, and find_paths returns the same
\* set of paths for every source, target and max_depth.
C8_OrderIndependent ==
    pc = "built" =>
        /\ methods = InOrder.methods
        /\ EdgeBag(graph) = EdgeBag(InOrder.graph)
        /\ \A source \in MethodKeys, target \in {"loadUrl", "WebView", "open"},
              max_depth \in 0..MaxDepth :
              PathSet(graph, source, target, max_depth)
                  = PathSet(InOrder.graph, source, target, max_depth)

\* C8 witness: a graph built in an order that left the calls of one caller in
\* another order than the collection's own, so that a query returns the same
\* paths in another order.
C8_Witness ==
    /\ pc = "built"
    /\ graph # InOrder.graph
    /\ \E source \in MethodKeys :
          /\ Len(find_paths(graph, source, "WebView", MaxDepth)) >= 2
          /\ find_paths(graph, source, "WebView", MaxDepth)
                # find_paths(InOrder.graph, source, "WebView", MaxDepth)

-----------------------------------------------------------------------------
(* Manifest *)

\* mutant: the data list is not looked at
is_deeplink_without_data(f) ==
    /\ \E a \in Range(f.actions) : Contains(a, "VIEW")
    /\ \E c \in Range(f.categories) : Contains(c, "BROWSABLE") \/ Contains(c, "DEFAULT")

\* ActivityIntentFilter::is_deeplink
is_deeplink(f) ==
    /\ \E a \in Range(f.actions) : Contains(a, "VIEW")
    /\ \E c \in Range(f.categories) : Contains(c, "BROWSABLE") \/ Contains(c, "DEFAULT")
    /\ f.data # <<>>

normalize_always_qualified(package_name, component_name) ==
    package_name \o "." \o component_name

normalize_component_name(package_name, component_name) ==
    IF Len(component_name) >= 1 /\ SubSeq(component_name, 1, 1) = "."
    THEN package_name \o component_name
    ELSE IF Contains(component_name, ".")
    THEN component_name
    ELSE package_name \o "." \o component_name

\* the names of the nodes of one element type, normalized
component_names(axml, type) ==
    LET nodes == SelectSeq(axml.nodes, LAMBDA n : n.type = type)
    IN  [k \in 1..Len(nodes) |-> normalize_component_name(axml.package, nodes[k].name)]

\* the intent filters of one activity node: a filter with neither an action nor
\* a data element is dropped
node_intent_filters(package_name, node) ==
    LET kept == SelectSeq(node.filters, LAMBDA f : f.actions # <<>> \/ f.data # <<>>)
    IN  [k \in 1..Len(kept) |->
            [activity |-> normalize_component_name(package_name, node.name),
             actions |-> kept[k].actions,
             categories |-> kept[k].categories,
             data |-> kept[k].data]]

RECURSIVE nodes_intent_filters(_, _)
nodes_intent_filters(package_name, nodes) ==
    IF nodes = <<>> THEN <<>>
    ELSE node_intent_filters(package_name, Head(nodes))
         \o nodes_intent_filters(package_name, Tail(nodes))

parse_intent_filters(axml) ==
    nodes_intent_filters(axml.package, SelectSeq(axml.nodes, LAMBDA n : n.type = "activity"))

\* parse_manifest of a document with a package attribute
parse_manifest(axml) ==
    [package_name |-> axml.package,
     activities |-> component_names(axml, "activity"),
     services |-> component_names(axml, "service"),
     receivers |-> component_names(axml, "receiver"),
     providers |-> component_names(axml, "provider"),
     intent_filters |-> parse_intent_filters(axml)]

-----------------------------------------------------------------------------
(* EntryPointAnalyzer *)

\* EntryPointAnalyzer::new: the decompiled classes indexed by class name
class_map(cs) == {cs[k].class_name : k \in 1..Len(cs)}

analyze_component(m, index, class_name, component_type) ==
    LET intent_filters == SelectSeq(m.intent_filters, LAMBDA f : f.activity = class_name)
    IN  [component_type |-> component_type,
         class_name |-> class_name,
         intent_filters |-> intent_filters,
         is_deeplink_handler |-> \E f \in Range(intent_filters) : is_deeplink(f),
         class_found |-> class_name \in index]

\* the entry point pushed for a service or a receiver
plain_entry_point(index, class_name, component_type) ==
    [component_type |-> component_type,
     class_name |-> class_name,
     intent_filters |-> <<>>,
     is_deeplink_handler |-> FALSE,
     class_found |-> class_name \in index]

\* EntryPointAnalyzer::analyze: activities, then services, then receivers
analyze(m, index) ==
    [k \in 1..Len(m.activities) |-> analyze_component(m, index, m.activities[k], "Activity")]
    \o [k \in 1..Len(m.services) |-> plain_entry_point(index, m.services[k], "Service")]
    \o [k \in 1..Len(m.receivers) |->
            plain_entry_point(index, m.receivers[k], "BroadcastReceiver")]

get_deeplink_handlers(m, index) ==
    SelectSeq(analyze(m, index), LAMBDA ep : ep.is_deeplink_handler)

-----------------------------------------------------------------------------
(* An analysis session: a manifest document is parsed, the classes of the   *)
(* package are decompiled, and the analyzer is asked for the entry points.  *)

MaxComponents == 2

\* the data element of a deeplink
AppData == [scheme |-> "app", host |-> "h"]

FilterPool ==
    {[actions |-> a, categories |-> c, data |-> d] :
        a \in {<<"android.intent.action.VIEW">>, <<"android.intent.action.MAIN">>},
        c \in {<<"android.intent.category.BROWSABLE">>,
               <<"android.intent.category.DEFAULT">>, <<>>},
        d \in {<<AppData>>, <<>>}}

NodePool ==
    {[type |-> "activity", name |-> n, filters |-> fs] :
        n \in {".A", "B"}, fs \in {<<>>} \cup {<<f>> : f \in FilterPool}}
    \cup {[type |-> "service", name |-> "S", filters |-> <<>>],
          [type |-> "receiver", name |-> "R", filters |-> <<>>],
          [type |-> "provider", name |-> "P", filters |-> <<>>],
          [type |-> "provider", name |-> "p.A", filters |-> <<>>]}

\* the decompiled classes an analyzer is given
ClassLists ==
    {<<>>,
     <<[class_name |-> "p.A", methods |-> <<>>]>>,
     <<[class_name |-> "p.P", methods |-> <<>>]>>,
     <<[class_name |-> "p.A", methods |-> <<>>], [class_name |-> "p.S", methods |-> <<>>]>>}

InitEntry ==
    /\ InitGraph
    /\ \E n \in 0..MaxComponents : \E nodes \in [1..n -> NodePool] :
          manifest = parse_manifest([package |-> "p", nodes |-> nodes])
    /\ classes \in ClassLists
    /\ todo = {}
    /\ entry_points = <<>>
    /\ flows = <<>>
    /\ bytecode = <<>>
    /\ i = 0
    /\ instructions = <<>>
    /\ reads = {}
    /\ registers = <<>>
    /\ expressions = <<>>
    /\ data = <<>>
    /\ header = <<>>
    /\ result = <<>>
    /\ dex_entries = <<>>
    /\ pc = "new"

Analyze ==
    /\ pc = "new"
    /\ entry_points' = analyze(manifest, class_map(classes))
    /\ pc' = "analyzed"
    /\ UNCHANGED <<graph_vars, bfs_vars, build_vars, manifest, flows, decode_vars, expr_vars, parse_vars>>

GetDeeplinkHandlers ==
    /\ pc = "new"
    /\ entry_points' = get_deeplink_handlers(manifest, class_map(classes))
    /\ pc' = "handlers"
    /\ UNCHANGED <<graph_vars, bfs_vars, build_vars, manifest, flows, decode_vars, expr_vars, parse_vars>>

NextEntry ==
    \/ Analyze
    \/ GetDeeplinkHandlers

SpecEntry == InitEntry /\ [][NextEntry]_vars

\* how many elements of a sequence satisfy a test
Count(s, Test(_)) == Len(SelectSeq(s, Test))

\* the entry points of one component type and class
EntryPointsOf(component_type, class_name) ==
    SelectSeq(entry_points,
              LAMBDA ep : ep.component_type = component_type /\ ep.class_name = class_name)

\* the component names the session can declare
ComponentNames == {"p.A", "p.B", "p.S", "p.R", "p.P"}

\* one entry point per declaration in `declared`, with class_found set from the index
OnePerDeclaration(declared, component_type) ==
    \A c \in ComponentNames :
        /\ Len(EntryPointsOf(component_type, c)) = Count(declared, LAMBDA d : d = c)
        /\ \A ep \in Range(EntryPointsOf(component_type, c)) :
              ep.class_found <=> (c \in class_map(classes))

\* C6 (as stated): analyze returns exactly one entry point for every activity,
\* service, receiver and provider declared in the manifest, each with class_found
\* true iff the component's class name is a key of the decompiled-class index.
C6_EntryPointPerComponent ==
    pc = "analyzed" =>
        /\ OnePerDeclaration(manifest.activities, "Activity")
        /\ OnePerDeclaration(manifest.services, "Service")
        /\ OnePerDeclaration(manifest.receivers, "BroadcastReceiver")
        /\ OnePerDeclaration(manifest.providers, "ContentProvider")

\* the part of C6 that holds: activities, services and receivers
NonProviderComponentsAnalyzed ==
    pc = "analyzed" =>
        /\ OnePerDeclaration(manifest.activities, "Activity")
        /\ OnePerDeclaration(manifest.services, "Service")
        /\ OnePerDeclaration(manifest.receivers, "BroadcastReceiver")

-----------------------------------------------------------------------------
(* DataFlowAnalyzer *)

lifecycle_methods == <<"onCreate", "onStart", "onResume", "onNewIntent">>

\* find_sink_methods: per pattern, the matching methods in the iteration order
\* `iter` of the known-methods HashSet, appended to one list
RECURSIVE find_sink_methods(_, _, _)
find_sink_methods(cg, patterns, iter) ==
    IF patterns = <<>> THEN <<>>
    ELSE SelectSeq(iter, LAMBDA m : m \in find_methods_matching(cg, Head(patterns)))
         \o find_sink_methods(cg, Tail(patterns), iter)

Flow(entry_point, sink_method, found) ==
    [entry_point |-> entry_point.class_name,
     component_type |-> entry_point.component_type,
     sink_method |-> sink_method,
     paths |-> found,
     is_deeplink_handler |-> entry_point.is_deeplink_handler,
     min_path_length |->
        (CHOOSE n \in {found[k].length : k \in 1..Len(found)} :
            \A k \in 1..Len(found) : n <= found[k].length),
     path_count |-> Len(found)]

\* the innermost loop of find_flows_to: one source method, every sink method
RECURSIVE flows_from_source(_, _, _, _, _)
flows_from_source(cg, entry_point, source_method, sink_methods, max_depth) ==
    IF sink_methods = <<>> THEN <<>>
    ELSE LET found == find_paths(cg.graph, source_method, Head(sink_methods), max_depth)
         IN  (IF found # <<>> THEN <<Flow(entry_point, Head(sink_methods), found)>> ELSE <<>>)
             \o flows_from_source(cg, entry_point, source_method, Tail(sink_methods), max_depth)

\* the loop over the lifecycle methods of one entry point
RECURSIVE flows_from_entry_point(_, _, _, _, _)
flows_from_entry_point(cg, entry_point, lifecycles, sink_methods, max_depth) ==
    IF lifecycles = <<>> THEN <<>>
    ELSE flows_from_source(cg, entry_point,
                           entry_point.class_name \o "." \o Head(lifecycles),
                           sink_methods, max_depth)
         \o flows_from_entry_point(cg, entry_point, Tail(lifecycles), sink_methods, max_depth)

\* the loop over the entry points
RECURSIVE flows_from_entry_points(_, _, _, _)
flows_from_entry_points(cg, eps, sink_methods, max_depth) ==
    IF eps = <<>> THEN <<>>
    ELSE flows_from_entry_point(cg, Head(eps), lifecycle_methods, sink_methods, max_depth)
         \o flows_from_entry_points(cg, Tail(eps), sink_methods, max_depth)

\* DataFlowAnalyzer::find_flows_to, with the HashSet's iteration order as `iter`
find_flows_to(cg, m, index, sink_patterns, max_depth, iter) ==
    LET eps == analyze(m, index)
        sink_methods == find_sink_methods(cg, sink_patterns, iter)
    IN  IF sink_methods = <<>> THEN <<>>
        ELSE flows_from_entry_points(cg, eps, sink_methods, max_depth)

-----------------------------------------------------------------------------
(* A flow session: calls are added to a graph, a manifest is parsed, and     *)
(* find_flows_to is asked once.                                              *)

FlowCallers == {"a.A.onCreate", "a.A.onStart", "W.load"}
FlowCallees == {"W.load", "W.loadUrl"}
PatternLists == {<<"loadUrl">>, <<"load">>, <<"loadUrl", "W.load">>, <<"finish">>}

FlowDocs ==
    {[package |-> "a", nodes |-> <<>>],
     [package |-> "a", nodes |-> <<[type |-> "activity", name |-> "A", filters |-> <<>>]>>]}

\* the orders in which a set can be iterated
Orderings(S) == {f \in [1..Cardinality(S) -> S] : Range(f) = S}

\* the known methods that match one of the patterns; the iteration order of the
\* other methods has no effect on find_sink_methods
Matching(cg, patterns) ==
    UNION {find_methods_matching(cg, patterns[k]) : k \in 1..Len(patterns)}

InitFlow ==
    /\ InitGraph
    /\ \E doc \in FlowDocs : manifest = parse_manifest(doc)
    /\ classes = <<>>
    /\ todo = {}
    /\ entry_points = <<>>
    /\ flows = <<>>
    /\ bytecode = <<>>
    /\ i = 0
    /\ instructions = <<>>
    /\ reads = {}
    /\ registers = <<>>
    /\ expressions = <<>>
    /\ data = <<>>
    /\ header = <<>>
    /\ result = <<>>
    /\ dex_entries = <<>>
    /\ pc = "build"

AddFlowCall ==
    /\ pc = "build"
    /\ n_calls < MaxCalls
    /\ \E caller \in FlowCallers, callee \in FlowCallees :
          SetGraph(add_call(ThisGraph, caller, callee, CallSite))
    /\ n_calls' = n_calls + 1
    /\ UNCHANGED <<bfs_vars, pc, build_vars, flow_vars, decode_vars, expr_vars, parse_vars>>

FindFlowsTo ==
    /\ pc = "build"
    /\ \E sink_patterns \in PatternLists, max_depth \in 0..MaxDepth :
       \E iter \in Orderings(Matching(ThisGraph, sink_patterns)) :
          /\ flows' = find_flows_to(ThisGraph, manifest, class_map(classes),
                                    sink_patterns, max_depth, iter)
          /\ query' = [sink_patterns |-> sink_patterns, max_depth |-> max_depth]
    /\ pc' = "flows"
    /\ UNCHANGED <<graph_vars, queue, paths, build_vars, manifest, entry_points, decode_vars, expr_vars, parse_vars>>

NextFlow ==
    \/ AddFlowCall
    \/ FindFlowsTo

SpecFlow == InitFlow /\ [][NextFlow]_vars

\* the flows of one (entry point class, sink method) pair
FlowsOf(fs, entry_point, sink_method) ==
    SelectSeq(fs, LAMBDA f : f.entry_point = entry_point /\ f.sink_method = sink_method)

\* some lifecycle root of the class has a path to the sink
HasPath(entry_point, sink_method, max_depth) ==
    \E k \in 1..Len(lifecycle_methods) :
        find_paths(graph, entry_point \o "." \o lifecycle_methods[k],
                   sink_method, max_depth) # <<>>

\* C4 (as stated): find_flows_to returns at most one Flow for each (entry point
\* class, sink method) pair, and one exactly when some lifecycle root of the
\* entry point has a path to the sink.
C4_OneFlowPerPair ==
    pc = "flows" =>
        \A entry_point \in Range(manifest.activities),
           sink_method \in Matching(ThisGraph, query.sink_patterns) :
            /\ Len(FlowsOf(flows, entry_point, sink_method)) <= 1
            /\ Len(FlowsOf(flows, entry_point, sink_method)) = 1
                  <=> HasPath(entry_point, sink_method, query.max_depth)

\* the flows the same question gets with another depth
FlowsAtDepth(max_depth) ==
    find_flows_to(ThisGraph, manifest, class_map(classes), query.sink_patterns, max_depth,
                  CHOOSE iter \in Orderings(Matching(ThisGraph, query.sink_patterns)) : TRUE)

PathsOf(f) == Range(f.paths)

\* C5: for d1 <= d2, every flow returned with max_depth d1 is returned with
\* max_depth d2 (same entry point and sink) with a path set that includes its
\* path set with d1, and find_paths(src, tgt, d1) is a subset of
\* find_paths(src, tgt, d2).
C5_FlowMonotonicity ==
    pc = "flows" =>
        \A d2 \in query.max_depth..MaxDepth :
            /\ \A f \in Range(flows) : \E f2 \in Range(FlowsAtDepth(d2)) :
                  /\ f2.entry_point = f.entry_point
                  /\ f2.sink_method = f.sink_method
                  /\ PathsOf(f) \subseteq PathsOf(f2)
            /\ \A src \in FlowCallers, tgt \in FlowCallees :
                  Range(find_paths(graph, src, tgt, query.max_depth))
                      \subseteq Range(find_paths(graph, src, tgt, d2))

\* C5 witness: a flow whose path set is strictly larger with a larger depth, and
\* a depth below which the flow is not returned at all.
C5_Witness ==
    /\ pc = "flows"
    /\ \E f \in Range(flows) : \E f2 \in Range(FlowsAtDepth(MaxDepth)) :
          /\ f2.entry_point = f.entry_point
          /\ f2.sink_method = f.sink_method
          /\ PathsOf(f) \subseteq PathsOf(f2)
          /\ PathsOf(f) # PathsOf(f2)
    /\ FlowsAtDepth(0) = <<>>

-----------------------------------------------------------------------------
(* A builder session: an ExpressionBuilderPy over one image is asked to      *)
(* reconstruct one code-unit array after the other; each pass decodes the    *)
(* array and processes one instruction at a time.                            *)

MaxPieces == 2

\* the image of the builder: one string, four methods
ExprDex ==
    [strings |-> <<"WebView">>,
     methods |-> <<
        [class_name |-> "B", method_name |-> "run",
         parameters |-> <<"String">>, return_type |-> "void"],
        [class_name |-> "WebViewH", method_name |-> "open",
         parameters |-> <<"String">>, return_type |-> "void"],
        [class_name |-> "WebView", method_name |-> "clear",
         parameters |-> <<>>, return_type |-> "void"],
        [class_name |-> "S", method_name |-> "setJavaScriptEnabled",
         parameters |-> <<"boolean">>, return_type |-> "void"] >>]

\* the encoded instructions the arrays are made of
Pieces ==
    { <<4370>>,        \* 0x1112: const/4 v1, #1
      <<4370, 275, 0>>,  \* const/4 v1, #1; const/16 v1, #0
      <<275, 0>>,      \* 0x0113: const/16 v1, #0
      <<276, 7, 0>>,   \* 0x0114: const v1, #7
      <<282, 0>>,      \* 0x011a: const-string v1, string@0
      <<282, 9>>,      \* const-string v1, string@9 (no such string)
      <<8302, 0, 1>>,  \* 0x206e: invoke-virtual {v0, v1}, B.run
      <<8558, 1, 1>>,  \* 0x216e: invoke-virtual {v1, v1}, WebViewH.open
      <<8302, 3, 1>>,  \* invoke-virtual {v0, v1}, S.setJavaScriptEnabled
      <<113, 2, 0>>,   \* 0x0071: invoke-static {}, WebView.clear
      <<8302, 9, 1>>,  \* invoke-virtual {v0, v1}, method@9 (no such method)
      <<628, 1, 0>>,   \* 0x0274: invoke-virtual/range, WebViewH.open
      <<0>> }          \* nop

RECURSIVE Concat(_)
Concat(ss) == IF ss = <<>> THEN <<>> ELSE Head(ss) \o Concat(Tail(ss))

\* the arrays of up to MaxPieces pieces
CodePool == {Concat(fs) : fs \in UNION {[1..n -> Pieces] : n \in 0..MaxPieces}}

InitExpr ==
    /\ InitGraph
    /\ InitIdle
    /\ pc = "idle"

\* process_bytecode is entered: the array is decoded and self.pc is reset; the
\* register file is left as the previous pass left it
Reconstruct ==
    /\ pc = "idle"
    /\ \E code \in CodePool :
          /\ bytecode' = code
          /\ instructions' = decode(code)
          /\ query' = [code |-> code, registers |-> registers]
    /\ i' = 0
    /\ expressions' = <<>>
    /\ pc' = "run"
    /\ UNCHANGED <<graph_vars, queue, paths, build_vars, flow_vars, reads, registers, parse_vars>>

\* one iteration of the loop of process_bytecode
ProcessInstruction ==
    /\ pc = "run"
    /\ i < Len(instructions)
    /\ LET one == process_instruction(ExprDex, registers, instructions[i + 1])
       IN  /\ registers' = one.registers
           /\ expressions' = expressions \o one.expr
    /\ i' = i + 1
    /\ UNCHANGED <<graph_vars, bfs_vars, pc, build_vars, flow_vars,
                   bytecode, instructions, reads, parse_vars>>

\* process_bytecode returns: the expressions go to the caller and the locals
\* are dropped; self.pc and the register file stay
ReconstructReturn ==
    /\ pc = "run"
    /\ i = Len(instructions)
    /\ pc' = "idle"
    /\ bytecode' = <<>>
    /\ instructions' = <<>>
    /\ expressions' = <<>>
    /\ query' = NoQuery
    /\ UNCHANGED <<graph_vars, queue, paths, build_vars, flow_vars, i, reads, registers, parse_vars>>

NextExpr ==
    \/ Reconstruct
    \/ ProcessInstruction
    \/ ReconstructReturn

SpecExpr == InitExpr /\ [][NextExpr]_vars

\* the instruction the next iteration of the loop processes
NextInsn == instructions[i + 1]

\* the loop is about to process an instruction
Processing == pc = "run" /\ i < Len(instructions)

\* the pass is over and process_bytecode is about to return
PassDone == pc = "run" /\ i = Len(instructions)

\* the pass started on a builder with an empty register file, as every pass of
\* decompile_method does
FreshPass == DOMAIN query.registers = {}

IsInvoke(insn) ==
    insn.op \in {"InvokeVirtual", "InvokeSuper", "InvokeDirect", "InvokeStatic",
                 "InvokeInterface"}

IsConst(insn) == insn.op \in {"Const4", "Const16", "Const", "ConstString"}

\* the signature a resolvable invoke names
SigOf(insn) == resolve(ExprDex, insn.method_idx)[1]

\* the text an invoke with at least a receiver formats to, under a register file
TextOf(insn, regs) ==
    format_call(read_reg(regs, insn.args[1]), SigOf(insn),
                [k \in 1..(Len(insn.args) - 1) |-> read_reg(regs, insn.args[k + 1])])

\* the emission condition as the claim states it
ShouldEmit(insn, regs) ==
    \/ SigOf(insn).method_name = "setJavaScriptEnabled"
    \/ Contains(SigOf(insn).class_name, "WebView")
    \/ Contains(SigOf(insn).class_name, "WebSettings")
    \/ /\ insn.args # <<>>
       /\ \/ Contains(TextOf(insn, regs), "WebSettings")
          \/ Contains(TextOf(insn, regs), "WebView")

\* C13 (as stated): for every non-range invoke whose method index resolves,
\* whatever its argument count, an expression is emitted for it if and only if
\* the method name is setJavaScriptEnabled, or the class name contains WebView or
\* WebSettings, or the formatted expression text contains WebSettings or WebView.
C13_EmittedIffSignificant ==
    [][(Processing /\ IsInvoke(NextInsn) /\ resolve(ExprDex, NextInsn.method_idx) # None)
          => (Len(expressions') = Len(expressions) + 1 <=> ShouldEmit(NextInsn, registers))]_vars

\* the part of C13 that holds: invokes with at least one argument register
EmittedIffSignificantWithArgs ==
    [][(Processing /\ IsInvoke(NextInsn) /\ resolve(ExprDex, NextInsn.method_idx) # None
           /\ NextInsn.args # <<>>)
          => (Len(expressions') = Len(expressions) + 1 <=> ShouldEmit(NextInsn, registers))]_vars

\* C14 (as stated): every call to process_bytecode starts from an empty register
\* file, so the expressions produced for an array are the same whether or not
\* the builder processed another array before, and a register not written
\* within the current array reads as Unknown.
C14_FreshRegisterFile ==
    PassDone => expressions = process_bytecode(ExprDex, <<>>, bytecode).expressions

\* the index of the last const instruction among insns that writes reg, or 0
LastWrite(insns, reg) ==
    LET W == {j \in 1..Len(insns) : IsConst(insns[j]) /\ insns[j].dest = reg}
    IN  IF W = {} THEN 0 ELSE CHOOSE j \in W : \A k \in W : k <= j

\* how the claim renders the value of reg after insns
Rendered(insns, reg) ==
    IF LastWrite(insns, reg) = 0 THEN "?"
    ELSE LET w == insns[LastWrite(insns, reg)]
         IN  IF w.op = "ConstString"
             THEN (IF w.string_idx < Len(ExprDex.strings)
                   THEN "\"" \o ExprDex.strings[w.string_idx + 1] \o "\""
                   ELSE "?")
             ELSE IF w.value = 0 THEN "false"
             ELSE IF w.value = 1 THEN "true"
             ELSE ToString(w.value)

\* the text the claim gives the invoke at position j of insns
ExpectedText(insns, j) ==
    LET before == SubSeq(insns, 1, j - 1)
        args == insns[j].args
    IN  Rendered(before, args[1]) \o "." \o SigOf(insns[j]).method_name \o "("
        \o Join([k \in 1..(Len(args) - 1) |-> Rendered(before, args[k + 1])], ", ")
        \o ")"

C16_OnlyConstWrites ==
    [][(Processing /\ ~IsConst(NextInsn)) => registers' = registers]_vars

\* C16 witness: with a written register file, a significant invoke has just
\* emitted its expression, and its receiver register still holds the constant.
C16_Witness ==
    /\ pc = "run"
    /\ i >= 1
    /\ IsInvoke(instructions[i])
    /\ expressions # <<>>
    /\ instructions[i].args[1] \in DOMAIN registers
    /\ registers[instructions[i].args[1]] = ConstInt(0)

\* a filter as the claim describes a deeplink filter
ViewFilter(f) ==
    /\ \E k \in 1..Len(f.actions) : Contains(f.actions[k], "VIEW")
    /\ \E k \in 1..Len(f.categories) :
          Contains(f.categories[k], "BROWSABLE") \/ Contains(f.categories[k], "DEFAULT")

\* C17: an activity entry point has is_deeplink_handler = true if and only if
\* at least one intent filter whose activity equals its class name has an action
\* containing VIEW, a category containing BROWSABLE or DEFAULT, and at least one
\* data element; service and receiver entry points are never deeplink handlers.
C17_DeeplinkHandlers ==
    pc = "analyzed" =>
        \A k \in 1..Len(entry_points) :
            LET ep == entry_points[k]
            IN  IF ep.component_type = "Activity"
                THEN ep.is_deeplink_handler <=>
                        \E j \in 1..Len(manifest.intent_filters) :
                            /\ manifest.intent_filters[j].activity = ep.class_name
                            /\ ViewFilter(manifest.intent_filters[j])
                            /\ Len(manifest.intent_filters[j].data) >= 1
                ELSE ~ep.is_deeplink_handler

\* C17 witness: one activity with a VIEW/BROWSABLE-or-DEFAULT filter with data is
\* a handler, another activity with such a filter without data is not.
C17_Witness ==
    /\ pc = "analyzed"
    /\ \E k \in 1..Len(entry_points) :
          /\ entry_points[k].component_type = "Activity"
          /\ entry_points[k].is_deeplink_handler
    /\ \E k \in 1..Len(entry_points) :
          /\ entry_points[k].component_type = "Activity"
          /\ ~entry_points[k].is_deeplink_handler
          /\ \E j \in 1..Len(entry_points[k].intent_filters) :
                /\ ViewFilter(entry_points[k].intent_filters[j])
                /\ entry_points[k].intent_filters[j].data = <<>>

-----------------------------------------------------------------------------
(* DexParser (src/dex/parser.rs).  A Rust String is its UTF-8 bytes, so the
   strings of an image are kept as sequences of bytes. *)

HEADER_SIZE == 112
ENDIAN_CONSTANT == 305419896
REVERSE_ENDIAN_CONSTANT == 2018915346
STRING_ID_SIZE == 4
TYPE_ID_SIZE == 4
PROTO_ID_SIZE == 12
FIELD_ID_SIZE == 8
METHOD_ID_SIZE == 8
CLASS_DEF_SIZE == 32
MAGIC == <<100, 101, 120, 10>>

\* Result<T>: Ok carries the value, Err the DexError variant; rd is the set
\* of offsets of self.data the call has read
Ok(v, rd) == [ok |-> TRUE, val |-> v, rd |-> rd]
Err(kind, rd) == [ok |-> FALSE, err |-> kind, rd |-> rd]

\* little-endian value of a run of bytes
RECURSIVE le_value(_)
le_value(bytes) ==
    IF bytes = <<>> THEN 0 ELSE bytes[1] + 256 * le_value(Tail(bytes))

\* Cursor::read_exact of n bytes at position pos: an error, and nothing read,
\* when fewer than n bytes remain
read_exact(d, pos, n, rd) ==
    IF pos + n <= Len(d)
    THEN [ok |-> TRUE, val |-> SubSeq(d, pos + 1, pos + n), pos |-> pos + n,
          rd |-> rd \cup (pos..(pos + n - 1))]
    ELSE Err("IoError", rd)

\* the little-endian value of the bytes a read returned
le_decoded(r) == IF r.ok THEN [r EXCEPT !.val = le_value(r.val)] ELSE r

\* ReadBytesExt::read_u8 / read_u16::<LittleEndian> / read_u32::<LittleEndian>
read_uint(d, pos, n, rd) == le_decoded(read_exact(d, pos, n, rd))

read_u8(d, pos, rd) == read_uint(d, pos, 1, rd)
read_u16(d, pos, rd) == read_uint(d, pos, 2, rd)
read_u32(d, pos, rd) == read_uint(d, pos, 4, rd)

\* the value of a header field: parse_header reads below offset 112 of a
\* buffer it has checked to hold 112 bytes
u32_at(d, off) == le_value(SubSeq(d, off + 1, off + 4))

parse_header(d) ==
    IF Len(d) < 112 THEN Err("InvalidDex", {})
    ELSE IF SubSeq(d, 1, 4) # MAGIC THEN Err("InvalidDex", 0..3)
    ELSE IF u32_at(d, 36) # HEADER_SIZE THEN Err("InvalidDex", 0..39)
    ELSE Ok([magic |-> SubSeq(d, 1, 4),
             version |-> SubSeq(d, 5, 8),
             checksum |-> u32_at(d, 8),
             signature |-> SubSeq(d, 13, 32),
             file_size |-> u32_at(d, 32),
             header_size |-> u32_at(d, 36),
             endian_tag |-> u32_at(d, 40),
             link_size |-> u32_at(d, 44),
             link_off |-> u32_at(d, 48),
             map_off |-> u32_at(d, 52),
             string_ids_size |-> u32_at(d, 56),
             string_ids_off |-> u32_at(d, 60),
             type_ids_size |-> u32_at(d, 64),
             type_ids_off |-> u32_at(d, 68),
             proto_ids_size |-> u32_at(d, 72),
             proto_ids_off |-> u32_at(d, 76),
             field_ids_size |-> u32_at(d, 80),
             field_ids_off |-> u32_at(d, 84),
             method_ids_size |-> u32_at(d, 88),
             method_ids_off |-> u32_at(d, 92),
             class_defs_size |-> u32_at(d, 96),
             class_defs_off |-> u32_at(d, 100),
             data_size |-> u32_at(d, 104),
             data_off |-> u32_at(d, 108)], 0..111)

\* DexParser::new: Self { data, header } or the error of parse_header
DexParser_new(d) ==
    LET h == parse_header(d)
    IN  IF h.ok THEN Ok([data |-> d, header |-> h.val], h.rd) ELSE h

\* the bounds test that opens every lookup
index_out_of_bounds_off_by_one(idx, size) == idx > size

index_out_of_bounds(idx, size) == idx >= size

\* ((byte & 0x7F) as u32) << shift, as bits 0..30 (shl_u32) and bit 31
\* (shl_u32_top) of the u32: a u32 shift drops the bits above bit 31, which at
\* shift 28 are the upper three bits of the payload
shl_u32_unshifted(payload, shift) == payload

shl_u32(payload, shift) ==
    IF shift < 28 THEN payload * (2 ^ shift) ELSE (payload % 8) * (2 ^ 28)

shl_u32_top(payload, shift) ==
    IF shift < 28 THEN 0 ELSE (payload \div 8) % 2

\* read_uleb128: the loop, entered with the result and the shift reached so
\* far; the payloads occupy disjoint bits, so |= adds.  uleb128_byte is the
\* body of the loop once cursor.read_u8() has returned b.  The u32 returned
\* is top * 2^31 + val.
RECURSIVE read_uleb128_from(_, _, _, _, _)
RECURSIVE uleb128_byte(_, _, _, _)
uleb128_byte(d, b, acc, shift) ==
    IF ~b.ok THEN b
    ELSE IF b.val < 128
    THEN [ok |-> TRUE, val |-> acc + shl_u32(b.val, shift),
          top |-> shl_u32_top(b.val, shift), pos |-> b.pos, rd |-> b.rd]
    ELSE IF shift + 7 >= 35 THEN Err("ParseError", b.rd)
    ELSE read_uleb128_from(d, b.pos, acc + shl_u32(b.val % 128, shift), shift + 7, b.rd)

read_uleb128_from(d, pos, acc, shift, rd) ==
    uleb128_byte(d, read_u8(d, pos, rd), acc, shift)

read_uleb128(d, pos, rd) == read_uleb128_from(d, pos, 0, 0, rd)

\* the loop of get_string: bytes are read up to the zero terminator; without
\* one, every remaining byte is read and the next read_u8 fails
read_until_zero(d, pos, rd) ==
    LET zero_at == {k \in pos..(Len(d) - 1) : d[k + 1] = 0}
    IN  IF zero_at = {} THEN Err("IoError", rd \cup (pos..(Len(d) - 1)))
        ELSE LET z == CHOOSE k \in zero_at : \A j \in zero_at : k <= j
             IN  [ok |-> TRUE, val |-> SubSeq(d, pos + 1, z), pos |-> z + 1,
                  rd |-> rd \cup (pos..z)]

is_continuation(b) == 128 <= b /\ b <= 191

\* String::from_utf8 accepts exactly the well-formed UTF-8 sequences
RECURSIVE valid_utf8(_)
valid_utf8(bytes) ==
    IF bytes = <<>> THEN TRUE
    ELSE LET b == bytes[1]
             n == Len(bytes)
         IN  IF b < 128 THEN valid_utf8(Tail(bytes))
             ELSE IF 194 <= b /\ b <= 223
             THEN n >= 2 /\ is_continuation(bytes[2])
                         /\ valid_utf8(SubSeq(bytes, 3, n))
             ELSE IF 224 <= b /\ b <= 239
             THEN n >= 3 /\ is_continuation(bytes[2]) /\ is_continuation(bytes[3])
                         /\ (b = 224 => bytes[2] >= 160)
                         /\ (b = 237 => bytes[2] <= 159)
                         /\ valid_utf8(SubSeq(bytes, 4, n))
             ELSE IF 240 <= b /\ b <= 244
             THEN n >= 4 /\ is_continuation(bytes[2]) /\ is_continuation(bytes[3])
                         /\ is_continuation(bytes[4])
                         /\ (b = 240 => bytes[2] >= 144)
                         /\ (b = 244 => bytes[2] <= 143)
                         /\ valid_utf8(SubSeq(bytes, 5, n))
             ELSE FALSE

get_string(p, string_idx) ==
    IF index_out_of_bounds(string_idx, p.header.string_ids_size)
    THEN Err("ParseError", {})
    ELSE LET string_id_offset == p.header.string_ids_off + string_idx * STRING_ID_SIZE
             string_data_off == read_u32(p.data, string_id_offset, {})
         IN  IF ~string_data_off.ok THEN string_data_off
             ELSE LET length == read_uleb128(p.data, string_data_off.val, string_data_off.rd)
                  IN  IF ~length.ok THEN length
                      ELSE LET bytes == read_until_zero(p.data, length.pos, length.rd)
                           IN  IF ~bytes.ok THEN bytes
                               ELSE IF valid_utf8(bytes.val) THEN Ok(bytes.val, bytes.rd)
                               ELSE Err("ParseError", bytes.rd)

\* str::trim_end_matches of one byte
RECURSIVE trim_end_matches(_, _)
trim_end_matches(bytes, c) ==
    IF bytes # <<>> /\ bytes[Len(bytes)] = c
    THEN trim_end_matches(SubSeq(bytes, 1, Len(bytes) - 1), c)
    ELSE bytes

\* the number of leading bytes equal to c
RECURSIVE leading(_, _)
leading(bytes, c) ==
    IF bytes # <<>> /\ bytes[1] = c THEN 1 + leading(Tail(bytes), c) ELSE 0

\* "[]".repeat(n)
RECURSIVE brackets(_)
brackets_once(n) == IF n = 0 THEN <<>> ELSE <<91, 93>>

brackets(n) == IF n = 0 THEN <<>> ELSE <<91, 93>> \o brackets(n - 1)

RECURSIVE descriptor_to_java_type(_)
descriptor_to_java_type(descriptor) ==
    IF descriptor = <<>> THEN <<118, 111, 105, 100>>
    ELSE LET first_char == descriptor[1]
         IN  CASE first_char = 86 -> <<118, 111, 105, 100>>
               [] first_char = 90 -> <<98, 111, 111, 108, 101, 97, 110>>
               [] first_char = 66 -> <<98, 121, 116, 101>>
               [] first_char = 83 -> <<115, 104, 111, 114, 116>>
               [] first_char = 67 -> <<99, 104, 97, 114>>
               [] first_char = 73 -> <<105, 110, 116>>
               [] first_char = 74 -> <<108, 111, 110, 103>>
               [] first_char = 70 -> <<102, 108, 111, 97, 116>>
               [] first_char = 68 -> <<100, 111, 117, 98, 108, 101>>
               [] first_char = 76 ->
                    LET without_semicolon == trim_end_matches(Tail(descriptor), 59)
                    IN  [k \in 1..Len(without_semicolon) |->
                            IF without_semicolon[k] = 47 THEN 46 ELSE without_semicolon[k]]
               [] first_char = 91 ->
                    LET array_depth == leading(descriptor, 91)
                    IN  descriptor_to_java_type(
                            SubSeq(descriptor, array_depth + 1, Len(descriptor)))
                        \o brackets(array_depth)
               [] OTHER -> descriptor

get_type_name(p, type_idx) ==
    IF index_out_of_bounds(type_idx, p.header.type_ids_size)
    THEN Err("ParseError", {})
    ELSE LET type_id_offset == p.header.type_ids_off + type_idx * TYPE_ID_SIZE
             descriptor_idx == read_u32(p.data, type_id_offset, {})
         IN  IF ~descriptor_idx.ok THEN descriptor_idx
             ELSE LET descriptor == get_string(p, descriptor_idx.val)
                      rd == descriptor_idx.rd \cup descriptor.rd
                  IN  IF descriptor.ok
                      THEN Ok(descriptor_to_java_type(descriptor.val), rd)
                      ELSE Err(descriptor.err, rd)

\* n successive little-endian reads of the given width: the reads that fit
\* in the buffer succeed, and the first that does not ends the call
read_uints(d, pos, width, n, rd) ==
    LET fit == IF pos <= Len(d) THEN (Len(d) - pos) \div width ELSE 0
    IN  IF n <= fit
        THEN [ok |-> TRUE,
              val |-> [k \in 1..n |->
                          le_value(SubSeq(d, pos + (k - 1) * width + 1, pos + k * width))],
              pos |-> pos + n * width,
              rd |-> rd \cup (pos..(pos + n * width - 1))]
        ELSE Err("IoError", rd \cup (pos..(pos + fit * width - 1)))

get_class_def(p, class_idx) ==
    IF index_out_of_bounds(class_idx, p.header.class_defs_size)
    THEN Err("ParseError", {})
    ELSE LET class_def_offset == p.header.class_defs_off + class_idx * CLASS_DEF_SIZE
             w == read_uints(p.data, class_def_offset, 4, 8, {})
         IN  IF ~w.ok THEN w
             ELSE Ok([class_idx |-> w.val[1],
                      access_flags |-> w.val[2],
                      superclass_idx |-> w.val[3],
                      interfaces_off |-> w.val[4],
                      source_file_idx |-> w.val[5],
                      annotations_off |-> w.val[6],
                      class_data_off |-> w.val[7],
                      static_values_off |-> w.val[8]], w.rd)

get_field_info(p, field_idx) ==
    IF index_out_of_bounds(field_idx, p.header.field_ids_size)
    THEN Err("ParseError", {})
    ELSE LET field_id_offset == p.header.field_ids_off + field_idx * FIELD_ID_SIZE
             h == read_uints(p.data, field_id_offset, 2, 2, {})
         IN  IF ~h.ok THEN h
             ELSE LET name_idx == read_u32(p.data, h.pos, h.rd)
                  IN  IF ~name_idx.ok THEN name_idx
                      ELSE Ok([class_idx |-> h.val[1],
                               type_idx |-> h.val[2],
                               name_idx |-> name_idx.val], name_idx.rd)

get_method_info(p, method_idx) ==
    IF index_out_of_bounds(method_idx, p.header.method_ids_size)
    THEN Err("ParseError", {})
    ELSE LET method_id_offset == p.header.method_ids_off + method_idx * METHOD_ID_SIZE
             h == read_uints(p.data, method_id_offset, 2, 2, {})
         IN  IF ~h.ok THEN h
             ELSE LET name_idx == read_u32(p.data, h.pos, h.rd)
                  IN  IF ~name_idx.ok THEN name_idx
                      ELSE Ok([class_idx |-> h.val[1],
                               proto_idx |-> h.val[2],
                               name_idx |-> name_idx.val], name_idx.rd)

get_proto_info(p, proto_idx) ==
    IF index_out_of_bounds(proto_idx, p.header.proto_ids_size)
    THEN Err("ParseError", {})
    ELSE LET proto_id_offset == p.header.proto_ids_off + proto_idx * PROTO_ID_SIZE
             w == read_uints(p.data, proto_id_offset, 4, 3, {})
         IN  IF ~w.ok THEN w
             ELSE IF w.val[3] = 0
             THEN Ok([return_type_idx |-> w.val[2], parameters |-> <<>>], w.rd)
             ELSE LET size == read_u32(p.data, w.val[3], w.rd)
                  IN  IF ~size.ok THEN size
                      ELSE LET parameters == read_uints(p.data, size.pos, 2, size.val,
                                                        size.rd)
                           IN  IF ~parameters.ok THEN parameters
                               ELSE Ok([return_type_idx |-> w.val[2],
                                        parameters |-> parameters.val], parameters.rd)

\* the u32 a read_uleb128 returned, as one integer
u32_value(v) == v.top * (2 ^ 30) * 2 + v.val

\* successive ULEB128 values: the first failing read ends the call;
\* uleb128s_next continues once read_uleb128 has returned v
RECURSIVE read_uleb128s(_, _, _, _, _)
RECURSIVE uleb128s_next(_, _, _, _)
uleb128s_next(d, v, n, vals) ==
    IF ~v.ok THEN v
    ELSE read_uleb128s(d, v.pos, n - 1, Append(vals, u32_value(v)), v.rd)

read_uleb128s(d, pos, n, vals, rd) ==
    IF n = 0 THEN [ok |-> TRUE, val |-> vals, pos |-> pos, rd |-> rd]
    ELSE uleb128s_next(d, read_uleb128(d, pos, rd), n, vals)

\* EncodedField { field_idx, access_flags } and
\* EncodedMethod { method_idx, access_flags, code_off }; idx is the field_idx
\* or method_idx
Encoded(idx, vals) ==
    IF Len(vals) = 2
    THEN [idx |-> idx, access_flags |-> vals[2]]
    ELSE [idx |-> idx, access_flags |-> vals[2], code_off |-> vals[3]]

\* one delta-encoded list of parse_class_data: n entries, each a delta, the
\* access flags and, when extra = 1, the code offset; idx is the accumulator
\* (field_idx += field_idx_diff, method_idx += method_idx_diff).
\* encoded_next continues once the values e of one entry have been read.
RECURSIVE read_encoded(_, _, _, _, _, _, _)
RECURSIVE encoded_next(_, _, _, _, _, _)
encoded_next(d, e, n, extra, idx, items) ==
    IF ~e.ok THEN e
    ELSE read_encoded(d, e.pos, n - 1, extra, idx + e.val[1],
                      Append(items, Encoded(idx + e.val[1], e.val)), e.rd)

read_encoded(d, pos, n, extra, idx, items, rd) ==
    IF n = 0 THEN [ok |-> TRUE, val |-> items, pos |-> pos, rd |-> rd]
    ELSE encoded_next(d, read_uleb128s(d, pos, 2 + extra, <<>>, rd), n, extra, idx, items)

\* the four lists, in the order static fields, instance fields, direct
\* methods, virtual methods; each starts its accumulator at 0.  lists_next
\* continues once one list has been read.
RECURSIVE read_lists(_, _, _, _, _, _)
RECURSIVE lists_next(_, _, _, _, _)
lists_next(d, list, sizes, k, lists) ==
    IF ~list.ok THEN list
    ELSE read_lists(d, list.pos, sizes, k + 1, Append(lists, list.val), list.rd)

read_lists(d, pos, sizes, k, lists, rd) ==
    IF k > 4 THEN [ok |-> TRUE, val |-> lists, pos |-> pos, rd |-> rd]
    ELSE lists_next(d, read_encoded(d, pos, sizes[k], IF k <= 2 THEN 0 ELSE 1,
                                    0, <<>>, rd), sizes, k, lists)

\* the ClassData of the four lists read
class_data_of(lists) ==
    IF ~lists.ok THEN lists
    ELSE Ok([static_fields |-> lists.val[1],
             instance_fields |-> lists.val[2],
             direct_methods |-> lists.val[3],
             virtual_methods |-> lists.val[4]], lists.rd)

\* parse_class_data once the four sizes have been read
class_data_lists(d, sizes) ==
    IF ~sizes.ok THEN sizes
    ELSE class_data_of(read_lists(d, sizes.pos, sizes.val, 1, <<>>, sizes.rd))

ClassData_default ==
    [static_fields |-> <<>>, instance_fields |-> <<>>,
     direct_methods |-> <<>>, virtual_methods |-> <<>>]

parse_class_data(p, class_data_off) ==
    IF class_data_off = 0 THEN Ok(ClassData_default, {})
    ELSE class_data_lists(p.data, read_uleb128s(p.data, class_data_off, 4, <<>>, {}))

-----------------------------------------------------------------------------
(* A session over one DexParser: DexParser::new on a byte buffer, then any
   number of lookups.  The buffers are small DEX images, well-formed and
   damaged; every value they encode stays below 2^31. *)

MaxIdx == 3
MaxEntries == 2

\* the n bytes of v, little-endian
RECURSIVE le_bytes(_, _)
le_bytes(v, n) == IF n = 0 THEN <<>> ELSE <<v % 256>> \o le_bytes(v \div 256, n - 1)

\* the ULEB128 encoding of v
RECURSIVE uleb128(_)
uleb128(v) == IF v < 128 THEN <<v>> ELSE <<128 + (v % 128)>> \o uleb128(v \div 128)

zeros(n) == [k \in 1..n |-> 0]

\* layout of the images: the six tables follow the header, then the data
StringIdsOff == HEADER_SIZE
TypeIdsOff == StringIdsOff + 2 * STRING_ID_SIZE
ProtoIdsOff == TypeIdsOff + 2 * TYPE_ID_SIZE
FieldIdsOff == ProtoIdsOff + PROTO_ID_SIZE
MethodIdsOff == FieldIdsOff + FIELD_ID_SIZE
ClassDefsOff == MethodIdsOff + METHOD_ID_SIZE
String0Off == ClassDefsOff + CLASS_DEF_SIZE
String0 == <<5, 76, 97, 47, 66, 59, 0>>
String1Off == String0Off + Len(String0)
TypeListOff == String1Off + 4
ClassDataOff == TypeListOff + 6

\* one delta-encoded list: each entry is its delta, access flags 1 and, for a
\* method, code offset 0
RECURSIVE encoded_list(_, _)
encoded_list(diffs, extra) ==
    IF diffs = <<>> THEN <<>>
    ELSE uleb128(diffs[1]) \o <<1>> \o (IF extra = 0 THEN <<>> ELSE <<0>>)
         \o encoded_list(Tail(diffs), extra)

\* a class_data_item whose two field lists have the deltas fl and whose two
\* method lists have the deltas ml
class_data_item(fl, ml) ==
    uleb128(Len(fl)) \o uleb128(Len(fl)) \o uleb128(Len(ml)) \o uleb128(Len(ml))
    \o encoded_list(fl, 0) \o encoded_list(fl, 0)
    \o encoded_list(ml, 1) \o encoded_list(ml, 1)

Image(f) ==
    LET pool(n) == IF f.inflated THEN MaxIdx + 1 ELSE n
        whole ==
            f.magic \o <<48, 51, 53, 0>> \o le_bytes(0, 4) \o zeros(20)
            \o le_bytes(ClassDataOff + Len(f.class_data), 4)
            \o le_bytes(f.header_size, 4) \o le_bytes(f.endian_tag, 4)
            \o le_bytes(0, 4) \o le_bytes(0, 4) \o le_bytes(0, 4)
            \o le_bytes(pool(2), 4) \o le_bytes(StringIdsOff, 4)
            \o le_bytes(pool(2), 4) \o le_bytes(TypeIdsOff, 4)
            \o le_bytes(pool(1), 4) \o le_bytes(ProtoIdsOff, 4)
            \o le_bytes(pool(1), 4) \o le_bytes(FieldIdsOff, 4)
            \o le_bytes(pool(1), 4) \o le_bytes(MethodIdsOff, 4)
            \o le_bytes(pool(1), 4) \o le_bytes(ClassDefsOff, 4)
            \o le_bytes(ClassDataOff + Len(f.class_data) - String0Off, 4)
            \o le_bytes(String0Off, 4)
            \* string_ids, type_ids
            \o le_bytes(String0Off, 4) \o le_bytes(f.string1_off, 4)
            \o le_bytes(0, 4) \o le_bytes(1, 4)
            \* proto_ids, field_ids, method_ids
            \o le_bytes(1, 4) \o le_bytes(1, 4) \o le_bytes(TypeListOff, 4)
            \o le_bytes(0, 2) \o le_bytes(1, 2) \o le_bytes(1, 4)
            \o le_bytes(0, 2) \o le_bytes(0, 2) \o le_bytes(1, 4)
            \* class_defs
            \o le_bytes(0, 4) \o le_bytes(1, 4) \o le_bytes(0, 4) \o le_bytes(0, 4)
            \o le_bytes(0, 4) \o le_bytes(0, 4) \o le_bytes(ClassDataOff, 4)
            \o le_bytes(0, 4)
            \* data: two strings, one type_list, one class_data_item
            \o String0 \o f.string1 \o le_bytes(1, 4) \o le_bytes(1, 2)
            \o f.class_data
    IN  SubSeq(whole, 1, Len(whole) - f.cut)

DiffLists == UNION {[1..n -> {0, 1, 130}] : n \in 0..MaxEntries}

Sound ==
    [magic |-> MAGIC, header_size |-> HEADER_SIZE, endian_tag |-> ENDIAN_CONSTANT,
     inflated |-> FALSE, string1_off |-> String1Off, string1 |-> <<2, 91, 73, 0>>,
     class_data |-> class_data_item(<<1, 1>>, <<1, 1>>), cut |-> 0]

Images ==
    \* damaged headers
    {Image([Sound EXCEPT !.magic = m, !.header_size = hs, !.endian_tag = et]) :
        m \in {MAGIC, <<100, 101, 121, 10>>},
        hs \in {HEADER_SIZE, HEADER_SIZE + 1},
        et \in {ENDIAN_CONSTANT, REVERSE_ENDIAN_CONSTANT}}
    \cup {SubSeq(Image(Sound), 1, HEADER_SIZE - 1)}
    \* damaged tables and data
    \cup {Image([Sound EXCEPT !.inflated = inf, !.string1_off = off,
                              !.string1 = str, !.cut = cut]) :
            inf \in BOOLEAN,
            off \in {String1Off, ClassDataOff + 100},
            str \in {<<2, 91, 73, 0>>, <<2, 255, 73, 0>>},
            cut \in {0, 1, Len(Sound.class_data) + 8}}
    \* class data of every shape
    \cup {Image([Sound EXCEPT !.class_data = class_data_item(fl, ml)]) :
            fl \in DiffLists, ml \in {l \in DiffLists : Len(l) < MaxEntries}}

InitParse ==
    /\ InitGraph
    /\ todo = {}
    /\ classes = <<>>
    /\ manifest = EmptyManifest
    /\ entry_points = <<>>
    /\ flows = <<>>
    /\ bytecode = <<>>
    /\ i = 0
    /\ instructions = <<>>
    /\ reads = {}
    /\ registers = <<>>
    /\ expressions = <<>>
    /\ data \in Images
    /\ header = <<>>
    /\ result = <<>>
    /\ dex_entries = <<>>
    /\ pc = "raw"

ThisParser == [data |-> data, header |-> header]

Call(op, arg, out) ==
    /\ result' = [op |-> op, arg |-> arg, out |-> out]
    /\ UNCHANGED <<graph_vars, bfs_vars, pc, build_vars, flow_vars, decode_vars,
                   expr_vars, data, header, dex_entries>>

New ==
    /\ pc = "raw"
    /\ LET out == DexParser_new(data)
       IN  /\ result' = [op |-> "new", arg |-> 0, out |-> out]
           /\ header' = IF out.ok THEN out.val.header ELSE header
           /\ pc' = IF out.ok THEN "parsed" ELSE "rejected"
    /\ UNCHANGED <<graph_vars, bfs_vars, build_vars, flow_vars, decode_vars,
                   expr_vars, data, dex_entries>>

GetString ==
    /\ pc = "parsed"
    /\ \E idx \in 0..MaxIdx : Call("get_string", idx, get_string(ThisParser, idx))

GetTypeName ==
    /\ pc = "parsed"
    /\ \E idx \in 0..MaxIdx : Call("get_type_name", idx, get_type_name(ThisParser, idx))

GetClassDef ==
    /\ pc = "parsed"
    /\ \E idx \in 0..MaxIdx : Call("get_class_def", idx, get_class_def(ThisParser, idx))

GetFieldInfo ==
    /\ pc = "parsed"
    /\ \E idx \in 0..MaxIdx : Call("get_field_info", idx, get_field_info(ThisParser, idx))

GetMethodInfo ==
    /\ pc = "parsed"
    /\ \E idx \in 0..MaxIdx : Call("get_method_info", idx, get_method_info(ThisParser, idx))

GetProtoInfo ==
    /\ pc = "parsed"
    /\ \E idx \in 0..MaxIdx : Call("get_proto_info", idx, get_proto_info(ThisParser, idx))

ParseClassData ==
    /\ pc = "parsed"
    /\ \E off \in {0, ClassDataOff, ClassDataOff + 1, Len(data)} :
          Call("parse_class_data", off, parse_class_data(ThisParser, off))

NextParse ==
    \/ New
    \/ GetString
    \/ GetTypeName
    \/ GetClassDef
    \/ GetFieldInfo
    \/ GetMethodInfo
    \/ GetProtoInfo
    \/ ParseClassData

SpecParse == InitParse /\ [][NextParse]_vars

\* the six lookups that take a pool index, and the pool each indexes
Lookups ==
    {"get_string", "get_type_name", "get_class_def",
     "get_field_info", "get_method_info", "get_proto_info"}

PoolSize(op) ==
    CASE op = "get_string" -> header.string_ids_size
      [] op = "get_type_name" -> header.type_ids_size
      [] op = "get_class_def" -> header.class_defs_size
      [] op = "get_field_info" -> header.field_ids_size
      [] op = "get_method_info" -> header.method_ids_size
      [] op = "get_proto_info" -> header.proto_ids_size

\* where the table entry of the index lies, and how many bytes it takes
EntryOff(op, idx) ==
    CASE op = "get_string" -> header.string_ids_off + idx * STRING_ID_SIZE
      [] op = "get_type_name" -> header.type_ids_off + idx * TYPE_ID_SIZE
      [] op = "get_class_def" -> header.class_defs_off + idx * CLASS_DEF_SIZE
      [] op = "get_field_info" -> header.field_ids_off + idx * FIELD_ID_SIZE
      [] op = "get_method_info" -> header.method_ids_off + idx * METHOD_ID_SIZE
      [] op = "get_proto_info" -> header.proto_ids_off + idx * PROTO_ID_SIZE

EntrySize(op) ==
    CASE op = "get_string" -> STRING_ID_SIZE
      [] op = "get_type_name" -> TYPE_ID_SIZE
      [] op = "get_class_def" -> CLASS_DEF_SIZE
      [] op = "get_field_info" -> FIELD_ID_SIZE
      [] op = "get_method_info" -> METHOD_ID_SIZE
      [] op = "get_proto_info" -> PROTO_ID_SIZE

LookedUp == result # <<>> /\ result.op \in Lookups

\* C18 (as stated): DexParser::new returns an error for a buffer whose
\* endian_tag is not 0x12345678, so every parser that exists has the
\* canonical tag in its header.
C18_EndianTagValidated ==
    pc = "parsed" => header.endian_tag = ENDIAN_CONSTANT

\* C19: a lookup whose index is at or beyond the size of its pool returns
\* ParseError and has read nothing of the buffer; no lookup reads an offset
\* outside the buffer; a lookup whose table entry lies outside the buffer
\* returns an error.
C19_LookupsBoundsChecked ==
    LookedUp =>
        /\ result.arg >= PoolSize(result.op) =>
              /\ ~result.out.ok
              /\ result.out.err = "ParseError"
              /\ result.out.rd = {}
        /\ result.out.rd \subseteq 0..(Len(data) - 1)
        /\ EntryOff(result.op, result.arg) + EntrySize(result.op) > Len(data) =>
              ~result.out.ok

\* C19 witness: get_string was called with the index one past the string
\* pool of a buffer that holds bytes at the table slot of that index, and
\* returned ParseError.
C19_Witness ==
    /\ LookedUp
    /\ result.op = "get_string"
    /\ result.arg = header.string_ids_size
    /\ EntryOff(result.op, result.arg) + EntrySize(result.op) <= Len(data)
    /\ ~result.out.ok
    /\ result.out.err = "ParseError"

\* the ids of one list of a parsed ClassData, in order
Ids(list) == [k \in 1..Len(list) |-> list[k].idx]

StrictlyIncreasing(ids) ==
    \A k \in 1..(Len(ids) - 1) : ids[k] < ids[k + 1]

\* C20 (as stated): in each of the four lists parse_class_data returns, the
\* accumulated ids are strictly increasing.
C20_DeltaStrictlyIncreasing ==
    (result # <<>> /\ result.op = "parse_class_data" /\ result.out.ok) =>
        /\ StrictlyIncreasing(Ids(result.out.val.static_fields))
        /\ StrictlyIncreasing(Ids(result.out.val.instance_fields))
        /\ StrictlyIncreasing(Ids(result.out.val.direct_methods))
        /\ StrictlyIncreasing(Ids(result.out.val.virtual_methods))

-----------------------------------------------------------------------------
(* read_uleb128 on its own: a cursor over a short run of bytes, placed at
   offset 0 or 1, and one call. *)

MaxUleb == 6

UlebBytes == {0, 15, 127, 128, 255}

InitUleb ==
    /\ InitGraph
    /\ todo = {}
    /\ classes = <<>>
    /\ manifest = EmptyManifest
    /\ entry_points = <<>>
    /\ flows = <<>>
    /\ bytecode = <<>>
    /\ i = 0
    /\ instructions = <<>>
    /\ reads = {}
    /\ registers = <<>>
    /\ expressions = <<>>
    /\ data \in UNION {[1..n -> UlebBytes] : n \in 0..MaxUleb}
    /\ header = <<>>
    /\ result = <<>>
    /\ dex_entries = <<>>
    /\ pc = "cursor"

ReadUleb128 ==
    /\ pc = "cursor"
    /\ \E pos \in 0..1 :
          result' = [op |-> "read_uleb128", arg |-> pos, out |-> read_uleb128(data, pos, {})]
    /\ pc' = "read"
    /\ UNCHANGED <<graph_vars, bfs_vars, build_vars, flow_vars, decode_vars,
                   expr_vars, data, header, dex_entries>>

NextUleb == ReadUleb128

SpecUleb == InitUleb /\ [][NextUleb]_vars

\* the bytes in front of the cursor when read_uleb128 was called
UlebInput == SubSeq(data, result.arg + 1, Len(data))

\* the position (from 1) of the first byte without the continuation bit, or 0
UlebEnd ==
    LET ends == {k \in 1..Len(UlebInput) : UlebInput[k] < 128}
    IN  IF ends = {} THEN 0 ELSE CHOOSE k \in ends : \A j \in ends : k <= j

\* sum of (byte_k & 0x7F) << 7 * (k - 1) over the first n bytes, n <= 4
RECURSIVE LebSum(_)
LebSum(n) ==
    IF n = 0 THEN 0 ELSE LebSum(n - 1) + (UlebInput[n] % 128) * (128 ^ (n - 1))

\* C21: read_uleb128 reads at most five bytes; for an encoding that ends
\* within five bytes and whose value fits in 32 bits it returns the standard
\* unsigned LEB128 value (here as bit 31 and bits 0..30) and leaves the
\* cursor behind the encoding; when the fifth byte still has the
\* continuation bit it returns ParseError.
C21_Uleb128Standard ==
    pc = "read" =>
        /\ Cardinality(result.out.rd) <= 5
        /\ (UlebEnd \in 1..4) =>
              /\ result.out.ok
              /\ result.out.pos = result.arg + UlebEnd
              /\ result.out.top = 0
              /\ result.out.val = LebSum(UlebEnd)
        /\ (UlebEnd = 5 /\ UlebInput[5] <= 15) =>
              /\ result.out.ok
              /\ result.out.pos = result.arg + 5
              /\ result.out.top = UlebInput[5] \div 8
              /\ result.out.val = LebSum(4) + (UlebInput[5] % 8) * (2 ^ 28)
        /\ (Len(UlebInput) >= 5 /\ \A k \in 1..5 : UlebInput[k] >= 128) =>
              /\ ~result.out.ok
              /\ result.out.err = "ParseError"

\* C21 witness: a five-byte encoding of a value with bit 31 set was read.
C21_Witness ==
    /\ pc = "read"
    /\ UlebEnd = 5
    /\ UlebInput[5] = 15
    /\ result.out.ok
    /\ result.out.top = 1
    /\ result.out.val = 2 ^ 30 + (2 ^ 30 - 1)

-----------------------------------------------------------------------------
(* DexContainer (src/dex/container.rs) and the APK entry points of
   src/dex/call_graph.rs: batch operations over the DEX images of one APK *)

\* the results that are Ok, in order, without the errors
ok_value(r) == IF r.ok THEN <<r.val>> ELSE <<>>

RECURSIVE OkValues(_)
OkValues(rs) ==
    IF rs = <<>> THEN <<>> ELSE ok_value(Head(rs)) \o OkValues(Tail(rs))

\* access_flags | 0x0008
or_static(access_flags) ==
    IF (access_flags \div 8) % 2 = 1 THEN access_flags ELSE access_flags + 8

\* RustDexField::new once the three lookups of parse_field have returned
field_of(field_name, field_type, declaring_class, access_flags) ==
    IF ~field_name.ok THEN field_name
    ELSE IF ~field_type.ok THEN field_type
    ELSE IF ~declaring_class.ok THEN declaring_class
    ELSE Ok([name |-> field_name.val, field_type |-> field_type.val,
             declaring_class |-> declaring_class.val,
             access_flags |-> access_flags], {})

field_named(p, field_info, access_flags) ==
    IF ~field_info.ok THEN field_info
    ELSE field_of(get_string(p, field_info.val.name_idx),
                  get_type_name(p, field_info.val.type_idx),
                  get_type_name(p, field_info.val.class_idx), access_flags)

parse_field(p, field_idx, access_flags) ==
    field_named(p, get_field_info(p, field_idx), access_flags)

\* one parameter type of parse_method: "unknown" when the lookup fails
parameter_type(type_name) ==
    IF type_name.ok THEN type_name.val ELSE <<117, 110, 107, 110, 111, 119, 110>>

\* RustDexMethod::new once the lookups of parse_method have returned
method_of(p, proto_info, method_name, declaring_class, return_type, access_flags) ==
    IF ~method_name.ok THEN method_name
    ELSE IF ~declaring_class.ok THEN declaring_class
    ELSE Ok([name |-> method_name.val,
             parameters |-> [k \in 1..Len(proto_info.parameters) |->
                 parameter_type(get_type_name(p, proto_info.parameters[k]))],
             return_type |-> IF return_type.ok THEN return_type.val
                             ELSE <<118, 111, 105, 100>>,
             declaring_class |-> declaring_class.val,
             access_flags |-> access_flags], {})

method_with_proto(p, method_info, proto_info, access_flags) ==
    IF ~proto_info.ok THEN proto_info
    ELSE method_of(p, proto_info.val,
                   get_string(p, method_info.name_idx),
                   get_type_name(p, method_info.class_idx),
                   get_type_name(p, proto_info.val.return_type_idx), access_flags)

method_named(p, method_info, access_flags) ==
    IF ~method_info.ok THEN method_info
    ELSE method_with_proto(p, method_info.val,
                           get_proto_info(p, method_info.val.proto_idx), access_flags)

parse_method(p, method_idx, access_flags) ==
    method_named(p, get_method_info(p, method_idx), access_flags)

\* the superclass of parse_class; the images hold no NO_INDEX, so the lookup
\* is always made
superclass_of(type_name) == IF type_name.ok THEN Some(type_name.val) ELSE None

\* parse_class once class_def, class name and class data have been read:
\* members that fail to parse are left out
class_of(p, class_def, class_name, class_data) ==
    IF ~class_data.ok THEN class_data
    ELSE Ok([class_name |-> class_name,
             access_flags |-> class_def.access_flags,
             superclass |-> superclass_of(get_type_name(p, class_def.superclass_idx)),
             fields |->
                 OkValues([k \in 1..Len(class_data.val.static_fields) |->
                     parse_field(p, class_data.val.static_fields[k].idx,
                         or_static(class_data.val.static_fields[k].access_flags))])
                 \o OkValues([k \in 1..Len(class_data.val.instance_fields) |->
                     parse_field(p, class_data.val.instance_fields[k].idx,
                         class_data.val.instance_fields[k].access_flags)]),
             methods |->
                 OkValues([k \in 1..Len(class_data.val.direct_methods) |->
                     parse_method(p, class_data.val.direct_methods[k].idx,
                         class_data.val.direct_methods[k].access_flags)])
                 \o OkValues([k \in 1..Len(class_data.val.virtual_methods) |->
                     parse_method(p, class_data.val.virtual_methods[k].idx,
                         class_data.val.virtual_methods[k].access_flags)])], {})

class_named(p, class_def, class_name) ==
    IF ~class_name.ok THEN class_name
    ELSE class_of(p, class_def, class_name.val,
                  IF class_def.class_data_off # 0
                  THEN parse_class_data(p, class_def.class_data_off)
                  ELSE Ok(ClassData_default, {}))

class_defined(p, class_def) ==
    IF ~class_def.ok THEN class_def
    ELSE class_named(p, class_def.val, get_type_name(p, class_def.val.class_idx))

parse_class(p, class_idx) == class_defined(p, get_class_def(p, class_idx))

\* extract_classes_from_dex once DexParser::new has returned: classes that
\* fail to parse are logged and left out
classes_of_parser(parser) ==
    IF ~parser.ok THEN parser
    ELSE Ok(OkValues([k \in 1..parser.val.header.class_defs_size |->
                         parse_class(parser.val, k - 1)]), {})

extract_classes_from_dex(entries, dex_index) ==
    IF dex_index >= Len(entries) THEN Err("InvalidDex", {})
    ELSE classes_of_parser(DexParser_new(entries[dex_index + 1]))

\* extract_all_classes: the loop from index on, `?` on every image
RECURSIVE extract_all_from(_, _, _)
RECURSIVE extend_all(_, _, _, _)
extend_all(entries, index, all_classes, extracted) ==
    IF ~extracted.ok THEN extracted
    ELSE extract_all_from(entries, index + 1, all_classes \o extracted.val)

extract_all_from(entries, index, all_classes) ==
    IF index >= Len(entries) THEN Ok(all_classes, {})
    ELSE extend_all(entries, index, all_classes, extract_classes_from_dex(entries, index))

extract_all_classes(entries) == extract_all_from(entries, 0, <<>>)

\* Iterator::flatten
RECURSIVE Flatten(_)
Flatten(seqs) == IF seqs = <<>> THEN <<>> ELSE Head(seqs) \o Flatten(Tail(seqs))

\* the map of extract_all_classes_parallel: one result per image
RECURSIVE extract_each(_, _)
extract_each(entries, index) ==
    IF index >= Len(entries) THEN <<>>
    ELSE <<extract_classes_from_dex(entries, index)>> \o extract_each(entries, index + 1)

\* collect() into a Result: the error of an image that failed, whichever
\* worker met it (every error of extract_classes_from_dex is InvalidDex), or
\* the classes of all images in order
first_error(errors, results) ==
    IF errors # <<>> THEN Err(Head(errors).err, {})
    ELSE Ok(Flatten(OkValues(results)), {})

collect_results(results) ==
    first_error(SelectSeq(results, LAMBDA r : ~r.ok), results)

extract_all_classes_parallel(entries) == collect_results(extract_each(entries, 0))

\* class_filter: None, or Some(list) of which one element must occur in the name
passes_filter(class_filter, class_name) ==
    class_filter = None
    \/ \E k \in 1..Len(class_filter[1]) : Contains(class_name, class_filter[1][k])

\* the inner loop of build_call_graph_from_apk for one class index: the name
\* of the class handed to decompile_class and add_class, if any
class_added(class_filter, class_def, class_name) ==
    IF ~class_def.ok \/ ~class_name.ok THEN <<>>
    ELSE IF passes_filter(class_filter, class_name.val) THEN <<class_name.val>>
    ELSE <<>>

class_name_of(p, class_def) ==
    IF class_def.ok THEN get_type_name(p, class_def.val.class_idx) ELSE class_def

class_visited(p, class_filter, class_def) ==
    class_added(class_filter, class_def, class_name_of(p, class_def))

\* the body of the outer loop for one image: `Err(_) => continue`
dex_visited(parser, class_filter) ==
    IF ~parser.ok THEN <<>>
    ELSE Flatten([k \in 1..parser.val.header.class_defs_size |->
             class_visited(parser.val, class_filter, get_class_def(parser.val, k - 1))])

\* build_call_graph_from_apk: always Ok; added is the sequence of classes
\* the builder received
build_call_graph_from_apk(entries, class_filter) ==
    Ok([added |-> Flatten([k \in 1..Len(entries) |->
                     dex_visited(DexParser_new(entries[k]), class_filter)])], {})

\* build_call_graph_from_apk_parallel: the same tasks, decompiled by an
\* order-preserving parallel collect, then added sequentially
build_call_graph_from_apk_parallel(entries, class_filter) ==
    Ok([added |-> Flatten([k \in 1..Len(entries) |->
                     dex_visited(DexParser_new(entries[k]), class_filter)])], {})

(* A session over one APK: the container is built from a list of images and
   one batch operation is run on it *)

MaxDex == 2

BadMagic == <<100, 101, 121, 10>>

\* images of an APK: sound, damaged header (magic, header_size, too short),
\* and sound header over damaged tables or data
DexImages ==
    {Image(Sound),
     Image([Sound EXCEPT !.magic = BadMagic]),
     Image([Sound EXCEPT !.header_size = HEADER_SIZE + 1]),
     SubSeq(Image(Sound), 1, HEADER_SIZE - 1),
     Image([Sound EXCEPT !.inflated = TRUE]),
     Image([Sound EXCEPT !.string1 = <<2, 255, 73, 0>>]),
     Image([Sound EXCEPT !.cut = 1])}

ClassFilters == {None, Some(<<>>), Some(<<<<97, 46, 66>>>>), Some(<<<<120>>, <<97>>>>)}

InitBatch ==
    /\ graph = [m \in {} |-> <<>>]
    /\ reverse_graph = [m \in {} |-> <<>>]
    /\ methods = {}
    /\ n_calls = 0
    /\ query = NoQuery
    /\ queue = <<>>
    /\ paths = <<>>
    /\ pc = "apk"
    /\ todo = <<>>
    /\ classes = <<>>
    /\ manifest = <<>>
    /\ entry_points = <<>>
    /\ flows = <<>>
    /\ bytecode = <<>>
    /\ i = 0
    /\ instructions = <<>>
    /\ reads = {}
    /\ registers = <<>>
    /\ expressions = <<>>
    /\ data = <<>>
    /\ header = <<>>
    /\ result = <<>>
    /\ dex_entries \in UNION {[1..n -> DexImages] : n \in 0..MaxDex}

Batch(op, arg, out) ==
    /\ pc = "apk"
    /\ pc' = "done"
    /\ result' = [op |-> op, arg |-> arg, out |-> out]
    /\ UNCHANGED <<graph_vars, bfs_vars, build_vars, flow_vars, decode_vars,
                   expr_vars, data, header, dex_entries>>

ExtractAllClasses ==
    Batch("extract_all_classes", None, extract_all_classes(dex_entries))

ExtractAllClassesParallel ==
    Batch("extract_all_classes_parallel", None,
          extract_all_classes_parallel(dex_entries))

BuildCallGraphFromApk ==
    \E class_filter \in ClassFilters :
        Batch("build_call_graph_from_apk", class_filter,
              build_call_graph_from_apk(dex_entries, class_filter))

BuildCallGraphFromApkParallel ==
    \E class_filter \in ClassFilters :
        Batch("build_call_graph_from_apk_parallel", class_filter,
              build_call_graph_from_apk_parallel(dex_entries, class_filter))

NextBatch ==
    \/ ExtractAllClasses
    \/ ExtractAllClassesParallel
    \/ BuildCallGraphFromApk
    \/ BuildCallGraphFromApkParallel

SpecBatch == InitBatch /\ [][NextBatch]_vars

\* some image of the APK has a header that fails to parse
HeaderFails == \E k \in 1..Len(dex_entries) : ~parse_header(dex_entries[k]).ok

\* C22: every batch operation over an APK that holds an image whose header
\* fails to parse ends in an error, so the image is never silently skipped
C22_BadHeaderAborts ==
    (pc = "done" /\ HeaderFails) => ~result.out.ok

\* the part of C22 the container keeps: extract_all_classes and
\* extract_all_classes_parallel end in an error
ExtractAborts ==
    (pc = "done" /\ HeaderFails
        /\ result.op \in {"extract_all_classes", "extract_all_classes_parallel"})
    => ~result.out.ok

-----------------------------------------------------------------------------
(* ClassFilter, MethodFilter (src/dex/filter.rs), DexSearcher
   (src/dex/search.rs) and search_methods (src/lib.rs) *)

\* a & b on u32
RECURSIVE bit_and(_, _)
bit_and(a, b) ==
    IF a = 0 \/ b = 0 THEN 0
    ELSE (a % 2) * (b % 2) + 2 * bit_and(a \div 2, b \div 2)

\* str::starts_with
starts_with(s, prefix) ==
    Len(prefix) <= Len(s) /\ SubSeq(s, 1, Len(prefix)) = prefix

\* ClassFilter::matches
ClassFilter_matches(filter, class) ==
    /\ filter.packages # <<>> =>
          \E k \in 1..Len(filter.packages) :
              starts_with(class.package_name, filter.packages[k])
    /\ filter.exclude_packages # <<>> =>
          ~\E k \in 1..Len(filter.exclude_packages) :
              starts_with(class.package_name, filter.exclude_packages[k])
    /\ filter.class_name # None =>
          \/ Contains(class.class_name, filter.class_name[1])
          \/ Contains(class.simple_name, filter.class_name[1])
    /\ filter.modifiers # None =>
          bit_and(class.access_flags, filter.modifiers[1]) = filter.modifiers[1]

\* MethodFilter::matches
MethodFilter_matches(filter, method) ==
    /\ filter.method_name # None => Contains(method.name, filter.method_name[1])
    /\ filter.param_count # None => Len(method.parameters) = filter.param_count[1]
    /\ filter.param_types # <<>> =>
          /\ Len(method.parameters) = Len(filter.param_types)
          /\ \A k \in 1..Len(filter.param_types) :
                Contains(method.parameters[k], filter.param_types[k])
    /\ filter.return_type # None =>
          Contains(method.return_type, filter.return_type[1])
    /\ filter.modifiers # None =>
          bit_and(method.access_flags, filter.modifiers[1]) = filter.modifiers[1]

\* the limit test made after a push: `results.len() >= max`
limit_reached(results, limit) == limit # None /\ Len(results) >= limit[1]

\* DexSearcher::find_classes over the classes extract_all_classes returned:
\* push, then test the limit, then go on with the next class
RECURSIVE find_classes_from(_, _, _, _)
find_classes_pushed(all_classes, filter, limit, results) ==
    IF limit_reached(results, limit) THEN results
    ELSE find_classes_from(Tail(all_classes), filter, limit, results)

find_classes_from(all_classes, filter, limit, results) ==
    IF all_classes = <<>> THEN results
    ELSE IF ClassFilter_matches(filter, Head(all_classes))
    THEN find_classes_pushed(all_classes, filter, limit,
                             Append(results, Head(all_classes)))
    ELSE find_classes_from(Tail(all_classes), filter, limit, results)

find_classes(extracted, filter, limit) ==
    IF ~extracted.ok THEN extracted
    ELSE Ok(find_classes_from(extracted.val, filter, limit, <<>>), {})

\* the (class, method) pairs of the nested loops, in iteration order
class_methods(all_classes) ==
    Flatten([c \in 1..Len(all_classes) |->
        [k \in 1..Len(all_classes[c].methods) |->
            <<all_classes[c], all_classes[c].methods[k]>>]])

\* the nested loops of find_methods and search_methods over the pairs of the
\* classes that passed the class filter: push, then test the limit
RECURSIVE methods_from(_, _, _, _)
methods_pushed(pairs, method_filter, limit, results) ==
    IF limit_reached(results, limit) THEN results
    ELSE methods_from(Tail(pairs), method_filter, limit, results)

methods_from(pairs, method_filter, limit, results) ==
    IF pairs = <<>> THEN results
    ELSE IF MethodFilter_matches(method_filter, Head(pairs)[2])
    THEN methods_pushed(pairs, method_filter, limit, Append(results, Head(pairs)))
    ELSE methods_from(Tail(pairs), method_filter, limit, results)

\* DexSearcher::find_methods: the methods alone
methods_found(found_classes, method_filter, limit) ==
    IF ~found_classes.ok THEN found_classes
    ELSE Ok([k \in 1..Len(methods_from(class_methods(found_classes.val),
                                       method_filter, limit, <<>>)) |->
                methods_from(class_methods(found_classes.val),
                             method_filter, limit, <<>>)[k][2]], {})

find_methods(extracted, class_filter, method_filter, limit) ==
    methods_found(find_classes(extracted, class_filter, None), method_filter, limit)

\* search_methods (lib.rs): the (class, method) pairs
search_methods(extracted, class_filter, method_filter, limit) ==
    IF ~extracted.ok THEN extracted
    ELSE Ok(methods_from(
                class_methods(SelectSeq(extracted.val,
                    LAMBDA c : ClassFilter_matches(class_filter, c))),
                method_filter, limit, <<>>), {})

(* A session over the classes of one container: one search is run on them *)

MaxExtracted == 2
MaxLimit == 2

DexMethod(name, parameters, return_type, access_flags) ==
    [name |-> name, parameters |-> parameters, return_type |-> return_type,
     access_flags |-> access_flags]

DexClass(package_name, simple_name, access_flags, class_methods_) ==
    [class_name |-> package_name \o "." \o simple_name,
     package_name |-> package_name, simple_name |-> simple_name,
     access_flags |-> access_flags, methods |-> class_methods_]

ClassPool ==
    {DexClass("com.a", "Foo", 1,
              <<DexMethod("get", <<>>, "int", 1),
                DexMethod("set", <<"int">>, "void", 1),
                DexMethod("getAll", <<>>, "int[]", 9)>>),
     DexClass("com.b", "Bar", 17, <<DexMethod("get", <<>>, "int", 2)>>),
     DexClass("org", "Foo", 1, <<>>)}

NoClassFilter ==
    [packages |-> <<>>, exclude_packages |-> <<>>, class_name |-> None,
     modifiers |-> None]

ClassFilterPool ==
    {NoClassFilter,
     [NoClassFilter EXCEPT !.packages = <<"org", "com.a">>],
     [NoClassFilter EXCEPT !.packages = <<"com">>, !.exclude_packages = <<"com.b">>],
     [NoClassFilter EXCEPT !.class_name = Some("Foo")],
     [NoClassFilter EXCEPT !.modifiers = Some(16)]}

NoMethodFilter ==
    [method_name |-> None, param_count |-> None, param_types |-> <<>>,
     return_type |-> None, modifiers |-> None]

MethodFilterPool ==
    {NoMethodFilter,
     [NoMethodFilter EXCEPT !.method_name = Some("get")],
     [NoMethodFilter EXCEPT !.param_count = Some(0), !.modifiers = Some(1)],
     [NoMethodFilter EXCEPT !.param_types = <<"int">>],
     [NoMethodFilter EXCEPT !.return_type = Some("int")],
     [NoMethodFilter EXCEPT !.method_name = Some("x")]}

Limits == {None} \cup {Some(n) : n \in 0..MaxLimit}

InitSearch ==
    /\ graph = [m \in {} |-> <<>>]
    /\ reverse_graph = [m \in {} |-> <<>>]
    /\ methods = {}
    /\ n_calls = 0
    /\ query = NoQuery
    /\ queue = <<>>
    /\ paths = <<>>
    /\ pc = "extracted"
    /\ todo = <<>>
    /\ classes \in {Err("InvalidDex", {})}
                   \cup {Ok(l, {}) : l \in UNION {[1..n -> ClassPool] : n \in 0..MaxExtracted}}
    /\ manifest = <<>>
    /\ entry_points = <<>>
    /\ flows = <<>>
    /\ bytecode = <<>>
    /\ i = 0
    /\ instructions = <<>>
    /\ reads = {}
    /\ registers = <<>>
    /\ expressions = <<>>
    /\ data = <<>>
    /\ header = <<>>
    /\ result = <<>>
    /\ dex_entries = <<>>

Search(op, arg, out) ==
    /\ pc = "extracted"
    /\ pc' = "found"
    /\ result' = [op |-> op, arg |-> arg, out |-> out]
    /\ UNCHANGED <<graph_vars, bfs_vars, build_vars, flow_vars, decode_vars,
                   expr_vars, data, header, dex_entries>>

FindClasses ==
    \E filter \in ClassFilterPool, limit \in Limits :
        Search("find_classes", [class_filter |-> filter, limit |-> limit],
               find_classes(classes, filter, limit))

FindMethods ==
    \E class_filter \in ClassFilterPool, method_filter \in MethodFilterPool,
       limit \in Limits :
        Search("find_methods",
               [class_filter |-> class_filter, method_filter |-> method_filter,
                limit |-> limit],
               find_methods(classes, class_filter, method_filter, limit))

SearchMethods ==
    \E class_filter \in ClassFilterPool, method_filter \in MethodFilterPool,
       limit \in Limits :
        Search("search_methods",
               [class_filter |-> class_filter, method_filter |-> method_filter,
                limit |-> limit],
               search_methods(classes, class_filter, method_filter, limit))

NextSearch == FindClasses \/ FindMethods \/ SearchMethods

SpecSearch == InitSearch /\ [][NextSearch]_vars

\* every match of the search the state holds, in extraction order
MatchingClasses ==
    SelectSeq(classes.val, LAMBDA c : ClassFilter_matches(result.arg.class_filter, c))

MatchingPairs ==
    SelectSeq(class_methods(MatchingClasses),
              LAMBDA cm : MethodFilter_matches(result.arg.method_filter, cm[2]))

AllMatches ==
    CASE result.op = "find_classes" -> MatchingClasses
      [] result.op = "find_methods" ->
             [k \in 1..Len(MatchingPairs) |-> MatchingPairs[k][2]]
      [] result.op = "search_methods" -> MatchingPairs

Searched == pc = "found" /\ classes.ok

FirstMatches(n) ==
    SubSeq(AllMatches, 1, IF n < Len(AllMatches) THEN n ELSE Len(AllMatches))

\* C23: with limit Some(n) a search returns the first n matches in extraction
\* order (all of them when there are fewer, none when n = 0), and with limit
\* None it returns every match
C23_LimitRespected ==
    Searched =>
        /\ result.out.ok
        /\ result.out.val = IF result.arg.limit = None THEN AllMatches
                            ELSE FirstMatches(result.arg.limit[1])

\* what the searches keep: the claim for every limit but Some(0)
LimitRespectedFromOne ==
    (Searched /\ result.arg.limit # Some(0)) =>
        /\ result.out.ok
        /\ result.out.val = IF result.arg.limit = None THEN AllMatches
                            ELSE FirstMatches(result.arg.limit[1])

-----------------------------------------------------------------------------
(* normalize_component_name (src/apk/manifest.rs) applied to a component name
   and applied again to its own result *)

MaxName == 3

NamePieces == {".", "a", "B"}

RECURSIVE Names(_)
Names(n) ==
    IF n = 0 THEN {""}
    ELSE Names(n - 1) \cup {s \o c : s \in Names(n - 1), c \in NamePieces}

Packages == {"", "app", "com.ex", ".x", "a."}

InitNormalize ==
    /\ graph = [m \in {} |-> <<>>]
    /\ reverse_graph = [m \in {} |-> <<>>]
    /\ methods = {}
    /\ n_calls = 0
    /\ query = NoQuery
    /\ queue = <<>>
    /\ paths = <<>>
    /\ pc = "name"
    /\ todo = <<>>
    /\ classes = <<>>
    /\ manifest = <<>>
    /\ entry_points = <<>>
    /\ flows = <<>>
    /\ bytecode = <<>>
    /\ i = 0
    /\ instructions = <<>>
    /\ reads = {}
    /\ registers = <<>>
    /\ expressions = <<>>
    /\ data \in {[package_name |-> p, component_name |-> n] :
                    p \in Packages, n \in Names(MaxName)}
    /\ header = <<>>
    /\ result = <<>>
    /\ dex_entries = <<>>

Normalize ==
    /\ pc = "name"
    /\ pc' = "normalized"
    /\ result' = [op |-> "normalize_component_name", arg |-> data.component_name,
                  out |-> normalize_component_name(data.package_name,
                                                   data.component_name)]
    /\ UNCHANGED <<graph_vars, bfs_vars, build_vars, flow_vars, decode_vars,
                   expr_vars, data, header, dex_entries>>

NormalizeAgain ==
    /\ pc = "normalized"
    /\ pc' = "renormalized"
    /\ result' = [op |-> "normalize_component_name", arg |-> result.out,
                  out |-> normalize_component_name(data.package_name, result.out)]
    /\ UNCHANGED <<graph_vars, bfs_vars, build_vars, flow_vars, decode_vars,
                   expr_vars, data, header, dex_entries>>

NextNormalize == Normalize \/ NormalizeAgain

SpecNormalize == InitNormalize /\ [][NextNormalize]_vars

\* the three cases of the expansion, for the name the last call was given
Expanded ==
    IF starts_with(result.arg, ".") THEN result.out = data.package_name \o result.arg
    ELSE IF \A k \in 1..Len(result.arg) : SubSeq(result.arg, k, k) # "."
    THEN result.out = data.package_name \o "." \o result.arg
    ELSE result.out = result.arg

\* C24 as stated: the three cases hold, and a second application with the
\* same package returns its argument, whatever the package
C24_NormalizeIdempotent ==
    /\ pc \in {"normalized", "renormalized"} => Expanded
    /\ pc = "renormalized" => result.out = result.arg

\* C24: the three cases hold for every name and package, and a second
\* application with the same package returns its argument when the package
\* does not begin with '.'
C24_NormalizeIdempotentForPlainPackage ==
    /\ pc \in {"normalized", "renormalized"} => Expanded
    /\ (pc = "renormalized" /\ ~starts_with(data.package_name, "."))
           => result.out = result.arg

\* C24: a relative name was expanded against a non-empty package and the
\* second application left the expansion alone
C24_Witness ==
    /\ pc = "renormalized"
    /\ data.package_name = "com.ex"
    /\ data.component_name = ".a"
    /\ result.arg = "com.ex.a"
    /\ result.out = "com.ex.a"

-----------------------------------------------------------------------------
(* split_class_name (src/dex/class_decompiler.rs) and
   RustDexClass::split_class_name (src/dex/models.rs); names are byte
   sequences, as in the parser *)

\* str::trim_start_matches of one byte
RECURSIVE trim_start_matches(_, _)
trim_start_matches(bytes, c) ==
    IF bytes # <<>> /\ bytes[1] = c
    THEN trim_start_matches(Tail(bytes), c)
    ELSE bytes

\* str::trim_matches of one byte: both ends
trim_matches(bytes, c) == trim_end_matches(trim_start_matches(bytes, c), c)

\* str::replace of one byte by another
replace(bytes, from, to) ==
    [k \in 1..Len(bytes) |-> IF bytes[k] = from THEN to ELSE bytes[k]]

\* str::rfind of one byte: the 0-based index of its last occurrence, or None
rfind(bytes, c) ==
    IF \E k \in 1..Len(bytes) : bytes[k] = c
    THEN Some((CHOOSE k \in 1..Len(bytes) :
                  /\ bytes[k] = c
                  /\ \A j \in (k + 1)..Len(bytes) : bytes[j] # c) - 1)
    ELSE None

\* the split at the last '.', shared by both functions
split_at_last_dot(name, last_dot) ==
    IF last_dot # None
    THEN <<SubSeq(name, 1, last_dot[1]), SubSeq(name, last_dot[1] + 2, Len(name))>>
    ELSE <<(<<>>), name>>

\* class_decompiler.rs
split_class_name(class_name) ==
    split_at_last_dot(replace(trim_matches(trim_matches(class_name, 76), 59), 47, 46),
                      rfind(replace(trim_matches(trim_matches(class_name, 76), 59),
                                    47, 46), 46))

\* models.rs
RustDexClass_split_class_name(class_name) ==
    split_at_last_dot(
        replace(trim_end_matches(trim_start_matches(class_name, 76), 59), 47, 46),
        rfind(replace(trim_end_matches(trim_start_matches(class_name, 76), 59),
                      47, 46), 46))

(* A session: one class name is split by one of the two functions *)

MaxChars == 4

\* 'L', ';', '/', '.', 'a'
NameBytes == {76, 59, 47, 46, 97}

InitSplit ==
    /\ graph = [m \in {} |-> <<>>]
    /\ reverse_graph = [m \in {} |-> <<>>]
    /\ methods = {}
    /\ n_calls = 0
    /\ query = NoQuery
    /\ queue = <<>>
    /\ paths = <<>>
    /\ pc = "class_name"
    /\ todo = <<>>
    /\ classes = <<>>
    /\ manifest = <<>>
    /\ entry_points = <<>>
    /\ flows = <<>>
    /\ bytecode = <<>>
    /\ i = 0
    /\ instructions = <<>>
    /\ reads = {}
    /\ registers = <<>>
    /\ expressions = <<>>
    /\ data \in UNION {[1..n -> NameBytes] : n \in 0..MaxChars}
    /\ header = <<>>
    /\ result = <<>>
    /\ dex_entries = <<>>

Split(op, out) ==
    /\ pc = "class_name"
    /\ pc' = "split"
    /\ result' = [op |-> op, arg |-> data, out |-> out]
    /\ UNCHANGED <<graph_vars, bfs_vars, build_vars, flow_vars, decode_vars,
                   expr_vars, data, header, dex_entries>>

SplitClassName == Split("split_class_name", split_class_name(data))

RustDexClassSplitClassName ==
    Split("RustDexClass::split_class_name", RustDexClass_split_class_name(data))

NextSplit == SplitClassName \/ RustDexClassSplitClassName

SpecSplit == InitSplit /\ [][NextSplit]_vars

\* a raw class type name 'L<segments separated by />;'
IsDescriptorName(name) ==
    /\ Len(name) >= 3
    /\ name[1] = 76
    /\ name[Len(name)] = 59
    /\ \A k \in 2..(Len(name) - 1) : name[k] \in {76, 97, 47}

\* a dotted class name
IsDottedName(name) ==
    /\ name # <<>>
    /\ \A k \in 1..Len(name) : name[k] \in {76, 97, 46}

\* the normalized dotted name of a class name of either form
NormalizedName(name) ==
    IF IsDescriptorName(name)
    THEN [k \in 1..(Len(name) - 2) |-> IF name[k + 1] = 47 THEN 46 ELSE name[k + 1]]
    ELSE name

\* C25: for a class name of either form, the package is the part of the
\* normalized dotted name before its last '.', the simple name the part after
\* it, and an undotted name gives an empty package and the whole name
C25_SplitLosesNoCharacters ==
    (pc = "split" /\ (IsDescriptorName(data) \/ IsDottedName(data))) =>
        IF \E k \in 1..Len(NormalizedName(data)) : NormalizedName(data)[k] = 46
        THEN /\ result.out[1] \o <<46>> \o result.out[2] = NormalizedName(data)
             /\ \A k \in 1..Len(result.out[2]) : result.out[2][k] # 46
        ELSE result.out = <<(<<>>), NormalizedName(data)>>

\* what both functions keep: the claim for names that neither begin nor end
\* with 'L' once the descriptor's own 'L' and ';' are taken off
SplitKeepsPlainNames ==
    (pc = "split" /\ (IsDescriptorName(data) \/ IsDottedName(data))
        /\ NormalizedName(data) # <<>>
        /\ NormalizedName(data)[1] # 76
        /\ NormalizedName(data)[Len(NormalizedName(data))] # 76) =>
        IF \E k \in 1..Len(NormalizedName(data)) : NormalizedName(data)[k] = 46
        THEN /\ result.out[1] \o <<46>> \o result.out[2] = NormalizedName(data)
             /\ \A k \in 1..Len(result.out[2]) : result.out[2][k] # 46
        ELSE result.out = <<(<<>>), NormalizedName(data)>>

-----------------------------------------------------------------------------
(* descriptor_to_java_type (src/dex/parser.rs) applied to one descriptor *)

MaxDescriptor == 4

\* '[', 'I', 'V', 'L', 'a', '/', ';'
DescriptorBytes == {91, 73, 86, 76, 97, 47, 59}

InitDescriptor ==
    /\ graph = [m \in {} |-> <<>>]
    /\ reverse_graph = [m \in {} |-> <<>>]
    /\ methods = {}
    /\ n_calls = 0
    /\ query = NoQuery
    /\ queue = <<>>
    /\ paths = <<>>
    /\ pc = "descriptor"
    /\ todo = <<>>
    /\ classes = <<>>
    /\ manifest = <<>>
    /\ entry_points = <<>>
    /\ flows = <<>>
    /\ bytecode = <<>>
    /\ i = 0
    /\ instructions = <<>>
    /\ reads = {}
    /\ registers = <<>>
    /\ expressions = <<>>
    /\ data \in UNION {[1..n -> DescriptorBytes] : n \in 0..MaxDescriptor}
    /\ header = <<>>
    /\ result = <<>>
    /\ dex_entries = <<>>

DescriptorToJavaType ==
    /\ pc = "descriptor"
    /\ pc' = "converted"
    /\ result' = [op |-> "descriptor_to_java_type", arg |-> data,
                  out |-> descriptor_to_java_type(data)]
    /\ UNCHANGED <<graph_vars, bfs_vars, build_vars, flow_vars, decode_vars,
                   expr_vars, data, header, dex_entries>>

NextDescriptor == DescriptorToJavaType

SpecDescriptor == InitDescriptor /\ [][NextDescriptor]_vars

\* depth(d): the number of leading '[' of the descriptor of the state
Depth == CHOOSE n \in 0..Len(data) :
            /\ \A k \in 1..n : data[k] = 91
            /\ n < Len(data) => data[n + 1] # 91

BaseDescriptor == SubSeq(data, Depth + 1, Len(data))

\* a base descriptor: one primitive letter, or 'L' name ';'
IsBaseDescriptor(d) ==
    \/ d \in {<<73>>, <<86>>}
    \/ /\ Len(d) >= 3
       /\ d[1] = 76
       /\ d[Len(d)] = 59
       /\ \A k \in 2..(Len(d) - 1) : d[k] \in {76, 97, 47}

\* the Java name of a base descriptor
JavaName(d) ==
    IF d = <<73>> THEN <<105, 110, 116>>
    ELSE IF d = <<86>> THEN <<118, 111, 105, 100>>
    ELSE [k \in 1..(Len(d) - 2) |-> IF d[k + 1] = 47 THEN 46 ELSE d[k + 1]]

\* "[]" repeated n times
Repeated(n) == [k \in 1..(2 * n) |-> IF k % 2 = 1 THEN 91 ELSE 93]

\* C26: the Java type of a descriptor ends with '[]' repeated depth(d) times,
\* and for a descriptor over a well-formed base the part before it is the
\* Java name of the base
C26_ArraySuffixMatchesDepth ==
    pc = "converted" =>
        /\ Len(result.out) >= 2 * Depth
        /\ SubSeq(result.out, Len(result.out) - 2 * Depth + 1, Len(result.out))
               = Repeated(Depth)
        /\ IsBaseDescriptor(BaseDescriptor) =>
               SubSeq(result.out, 1, Len(result.out) - 2 * Depth)
                   = JavaName(BaseDescriptor)

\* C26: '[[I' was converted to 'int[][]'
C26_Witness ==
    /\ pc = "converted"
    /\ data = <<91, 91, 73>>
    /\ Depth = 2
    /\ result.out = <<105, 110, 116, 91, 93, 91, 93>>

-----------------------------------------------------------------------------
(* find_paths and add_call under Spec: depth bound, agreement of the two
   maps, termination, shape of the returned paths *)

\* C27: every path find_paths has recorded has at most max_depth nodes; with
\* max_depth = 0 no path is recorded, and with max_depth = 1 the search
\* returns the path [source] when the source contains the target and nothing
\* otherwise
C27_PathsWithinMaxDepth ==
    /\ \A k \in 1..Len(paths) : Len(paths[k].methods) <= query.max_depth
    /\ (pc \in {"bfs", "done"} /\ query.max_depth = 0) => paths = <<>>
    /\ (pc = "done" /\ query.max_depth = 1) =>
           paths = IF Contains(query.source, query.target)
                   THEN <<CallPath(<<query.source>>, <<>>)>>
                   ELSE <<>>

\* C27 witness: a search with max_depth = 2 returned a two-node path and left
\* out a three-node path to a node containing the target
C27_Witness ==
    /\ pc = "done"
    /\ query.max_depth = 2
    /\ \E p \in Returned : Len(p) = 2
    /\ \E p \in NodeSeqs(3) :
          /\ Len(p) = 3
          /\ ForwardPath(p)
          /\ Contains(p[3], query.target)
          /\ \A k \in 1..2 : ~Contains(p[k], query.target)
          /\ p \notin Returned

\* the number of forward edges a -> b, and of occurrences of a among the
\* callers recorded for b
ForwardCount(a, b) ==
    IF a \in DOMAIN graph
    THEN Cardinality({k \in 1..Len(graph[a]) : graph[a][k].callee = b})
    ELSE 0

ReverseCount(a, b) ==
    IF b \in DOMAIN reverse_graph
    THEN Cardinality({k \in 1..Len(reverse_graph[b]) : reverse_graph[b][k] = a})
    ELSE 0

\* C28: after any sequence of add_call the forward and the reverse map agree
\* edge by edge with multiplicity, every entry of either map has its key as
\* caller (callee) and both its endpoints among the known methods, and
\* total_edges is the number of add_call made
C28_ForwardReverseAgree ==
    /\ \A a, b \in Nodes : ForwardCount(a, b) = ReverseCount(a, b)
    /\ DOMAIN graph \subseteq Nodes
    /\ DOMAIN reverse_graph \subseteq Nodes
    /\ \A a \in DOMAIN graph : \A k \in 1..Len(graph[a]) :
          /\ graph[a][k].caller = a
          /\ {a, graph[a][k].callee} \subseteq methods
    /\ \A b \in DOMAIN reverse_graph : \A k \in 1..Len(reverse_graph[b]) :
          {b, reverse_graph[b][k]} \subseteq methods
    /\ total_edges(ThisGraph) = n_calls

\* C28 witness: three calls were added, two of them the same edge and one a
\* self-loop
C28_Witness ==
    /\ n_calls = 3
    /\ \E a, b \in Nodes : a # b /\ ForwardCount(a, b) = 2 /\ ReverseCount(a, b) = 2
    /\ \E a \in Nodes : ForwardCount(a, a) = 1

\* a recorded path is well formed: it starts at the source, its last node is
\* the first one that contains the target, calls[k] is an entry of the graph
\* from methods[k] to methods[k + 1], and length counts the calls
WellFormed(p) ==
    /\ p.methods # <<>>
    /\ p.methods[1] = query.source
    /\ Contains(p.methods[Len(p.methods)], query.target)
    /\ \A k \in 1..(Len(p.methods) - 1) : ~Contains(p.methods[k], query.target)
    /\ Len(p.calls) = Len(p.methods) - 1
    /\ p.length = Len(p.calls)
    /\ \A k \in 1..Len(p.calls) :
          /\ p.calls[k].caller = p.methods[k]
          /\ p.calls[k].callee = p.methods[k + 1]
          /\ p.methods[k] \in DOMAIN graph
          /\ \E j \in 1..Len(graph[p.methods[k]]) : graph[p.methods[k]][j] = p.calls[k]

\* C30 as stated: every recorded path is well formed, and a source that
\* contains the target yields exactly the path [source], whatever max_depth
C30_PathsWellFormed ==
    /\ \A k \in 1..Len(paths) : WellFormed(paths[k])
    /\ (pc = "done" /\ Contains(query.source, query.target)) =>
           paths = <<[methods |-> <<query.source>>, calls |-> <<>>, length |-> 0]>>

\* C30: every recorded path is well formed, and with max_depth >= 1 a source
\* that contains the target yields exactly the zero-length path [source]
C30_PathsWellFormedWithinDepth ==
    /\ \A k \in 1..Len(paths) : WellFormed(paths[k])
    /\ (pc = "done" /\ Contains(query.source, query.target) /\ query.max_depth >= 1) =>
           paths = <<[methods |-> <<query.source>>, calls |-> <<>>, length |-> 0]>>

\* C30 witness: a path of three nodes and two calls was returned
C30_Witness ==
    /\ pc = "done"
    /\ \E k \in 1..Len(paths) :
          /\ Len(paths[k].methods) = 3
          /\ Len(paths[k].calls) = 2
          /\ paths[k].length = 2

\* The session over three of the nodes, when the loop of find_paths is run: it
\* is sequential code on one thread, so an iteration that can be taken is
\* taken, and the return follows the last iteration
LiveNodes == {"A.onCreate", "A.onStart", "W.loadUrl"}

AddCallLive ==
    /\ pc = "build"
    /\ n_calls < MaxCalls
    /\ \E caller \in LiveNodes, callee \in LiveNodes :
          SetGraph(add_call(ThisGraph, caller, callee, CallSite))
    /\ n_calls' = n_calls + 1
    /\ UNCHANGED <<bfs_vars, pc, build_vars, flow_vars, decode_vars, expr_vars, parse_vars>>

NextLive ==
    \/ AddCallLive
    \/ FindPathsStart
    \/ FindPathsStep
    \/ FindPathsReturn

SpecLive ==
    Init /\ [][NextLive]_vars /\ WF_vars(FindPathsStep) /\ WF_vars(FindPathsReturn)

\* C29: a search that has been entered ends: the queue becomes empty and
\* find_paths returns, whatever the graph (cycles, self-loops and parallel
\* edges included) and max_depth
C29_FindPathsTerminates == (pc = "bfs") ~> (pc = "done" /\ queue = <<>>)

\* C29 witness: a search returned on a graph with a cycle through the source
\* and a self-loop, after the source had been expanded
C29_Witness ==
    /\ pc = "done"
    /\ queue = <<>>
    /\ query.max_depth = 3
    /\ ~Contains(query.source, query.target)
    /\ \E b \in Nodes :
          /\ b # query.source
          /\ IsEdge(query.source, b)
          /\ IsEdge(b, query.source)
          /\ IsEdge(b, b)
=============================================================================
